---- MODULE Spec2Model ----
(***************************************************************************)
(* State-machine model of the eventus event bus (src/eventus.h, version    *)
(* 0.0.2, lines 457-1017): the typed subscriber registry, its priority     *)
(* ordered synchronous dispatch, the unsubscribe family, the bus lock as   *)
(* client threads see it, and the worker pool behind publish_threaded and  *)
(* publish_async.                                                          *)
(***************************************************************************)
EXTENDS Integers, Sequences, FiniteSets

(* ---- bounds ---------------------------------------------------------- *)
MaxTypes == 2     \* number of distinct event types (typeid keys)
MaxIds   == 3     \* subscribe is disabled once id_counter reaches this
MaxPrio  == 1     \* priorities are drawn from 0..MaxPrio
MaxSpin  == 1     \* the type-erased scan counts its loop passes modulo MaxSpin + 1
MaxEvents == 2    \* events handed to one publish_multi call
MaxSubs   == 2    \* subscribers registered before the calls of a populated bus
MaxData   == 1    \* event values are drawn from 0..MaxData
MaxDelta  == 1    \* a callback adds 0..MaxDelta to the event it is handed
MaxWorkers == 2   \* worker threads of the pool
MaxCalls   == 1   \* publish_threaded and publish_async calls made on the bus
MaxTasks   == 2   \* tasks handed to thread_pool::enqueue during the pool's life
MaxHandles == 2   \* owned_id objects constructed

Types == 1..MaxTypes
Prios == 0..MaxPrio
Ids   == 0..(MaxIds - 1)

NoType == 0
NoId   == -1

\* owners of bus::mu: Free when unlocked, Caller for the client thread whose
\* call is followed statement by statement (the calls of all other client
\* threads are critical sections and appear as single steps)
Free   == 0
Caller == 1

\* the pool's workers and the thread each of them is
Workers == 1..MaxWorkers
Handles == 1..MaxHandles
Tid(w)  == Caller + w

(* ---- e_status -------------------------------------------------------- *)
OK                            == "OK"
EVENT_TYPE_NOT_REGISTERED     == "EVENT_TYPE_NOT_REGISTERED"
NO_SUBSCRIBERS_FOR_EVENT_TYPE == "NO_SUBSCRIBERS_FOR_EVENT_TYPE"
NO_SUBSCRIBER_WITH_ID         == "NO_SUBSCRIBER_WITH_ID"

\* marks in ret a call that has not returned yet
RUNNING == "(running)"

VARIABLES
    subs,        \* bus::subs : the registered type keys mapped to their buckets
    id_counter,  \* bus::id_counter
    gc_enabled,  \* build configuration: FALSE models EVENTUS_NO_BUS_GC
    scan,        \* the running type-erased unsubscribe(id): its loop state
    ret,         \* the last call: operation, arguments, returned status, and
                 \* for publish the subscribers invoked with their results
    issued,      \* the values id_counter.fetch_add has handed out, oldest first
    mu,          \* bus::mu : the thread that holds the bus lock, or Free
    pc,          \* the followed client thread: the call it is inside and its locals
    event,       \* the event object the followed thread owns and publishes
    tasks,       \* thread_pool::tasks : the queue, front first
    workers,     \* per worker: where it is in its loop and the task it holds
    enq,         \* number of tasks enqueued so far (a task's serial number)
    shared,      \* per publish_async call: use_count of its shared_data
    outcome,     \* per pool call and subscriber: not invoked, running, or its result
    calls,       \* the publish_threaded and publish_async calls made, oldest first
    stop,        \* thread_pool::stop
    queue_mu,    \* thread_pool::queue_mu : the thread that holds it, or Free
    pending,     \* enqueue calls that have pushed and not yet notified
    dtor,        \* ~thread_pool : the statement it is at, and the jthread it destroys
    stop_req,    \* the workers whose jthread had request_stop() called
    ran,         \* serial numbers of the tasks that ran to completion
    once_ids,    \* the ids whose callback is a wrapper made by once
    fired,       \* the once wrappers that have been invoked: their id and type
    owned,       \* per owned_id object: its state, the (id, type) it wraps, and
                 \* whether an unsubscribe() call on it has fired
    fires        \* per id: the unsubscribe calls fired by owned_id objects

bus_vars    == <<subs, id_counter, gc_enabled, scan, ret, issued>>
thread_vars == <<mu, pc, event>>
pool_vars   == <<tasks, workers, enq, shared, outcome, calls>>
life_vars   == <<stop, queue_mu, pending, dtor, stop_req, ran>>
handle_vars == <<once_ids, fired, owned, fires>>

vars == <<bus_vars, thread_vars, pool_vars, life_vars, handle_vars>>

(* ---- helpers over buckets -------------------------------------------- *)
\* struct subscriber: the fields the registry logic reads
subscriber(id, priority) == [id |-> id, priority |-> priority]

Range(s) == {s[i] : i \in 1..Len(s)}

IdsOf(vec) == {vec[i].id : i \in 1..Len(vec)}

\* the empty unordered_map
EmptyMap == [t \in {} |-> <<>>]

\* the comparator handed to std::sort: a.priority > b.priority
comp(a, b) == a.priority > b.priority

\* a sequence is ordered for comp when no later element must precede an earlier one
is_sorted(vec) == \A i, j \in 1..Len(vec) : i < j => ~comp(vec[j], vec[i])

Rearrangements(vec) ==
    {[i \in 1..Len(vec) |-> vec[f[i]]] :
        f \in {g \in [1..Len(vec) -> 1..Len(vec)] :
                  \A a, b \in 1..Len(vec) : g[a] = g[b] => a = b}}

\* std::sort with the comparator reversed (a.priority < b.priority)
std_sort_ascending(vec) ==
    {p \in Rearrangements(vec) :
        \A i, j \in 1..Len(p) : i < j => ~(p[j].priority < p[i].priority)}

\* std::sort(vec.begin(), vec.end(), comp): the result is some permutation
\* ordered for comp; the relative order of elements that compare equal is
\* not specified (std::sort is not std::stable_sort), so every such
\* permutation is a possible outcome.
std_sort(vec) == {p \in Rearrangements(vec) : is_sorted(p)}

\* a gc pass that erases nothing
gc_keeps_all(s, enabled) == s

\* a gc that erases the empty buckets in every build
gc_always(s, enabled) == [t \in {k \in DOMAIN s : s[k] # <<>>} |-> s[t]]

\* detail::gc: erase every key whose bucket is empty (no-op under EVENTUS_NO_BUS_GC)
gc(s, enabled) ==
    IF enabled
    THEN [t \in {k \in DOMAIN s : s[k] # <<>>} |-> s[t]]
    ELSE s

\* b->subs[typeid(EventT)] : operator[] default-constructs a missing bucket
bucket_ref(s, t) == IF t \in DOMAIN s THEN s[t] ELSE <<>>

\* a map that holds the bucket of t and nothing else
only_bucket(s, t, vec) == [k \in {t} |-> vec]

\* the map with key t bound to vec (inserted when missing)
with_bucket(s, t, vec) ==
    [k \in (DOMAIN s) \cup {t} |-> IF k = t THEN vec ELSE s[k]]

(* ---- Init ------------------------------------------------------------ *)
NoCall == [op |-> "none", type |-> NoType, id |-> NoId, status |-> OK, invoked |-> <<>>]

Idle == [active |-> FALSE, id |-> NoId, it |-> NoType, iters |-> 0]

\* a worker's local task before one is moved into it. A publish_async
\* lambda holds a reference to a bucket element: sub is the element's
\* position in the bucket, id the subscriber stored there and gen the value
\* of id_counter when the reference was taken
NoTask == [kind |-> "none", call |-> 0, type |-> NoType, sub |-> 0,
           id |-> NoId, gen |-> 0, data |-> "none", serial |-> 0]

\* a worker blocked in cv.wait; inv is the subscriber whose callback a
\* worker inside a publish_async lambda is executing
Waiting == [state |-> "waiting", task |-> NoTask, pos |-> 0, inv |-> NoId]

\* what is known of a subscriber's invocation by a pool call
NotInvoked    == "not invoked"
Invoking      == "running"
ReturnedTrue  == "returned true"
ReturnedFalse == "returned false"

\* a pool whose queue is empty and whose workers all wait, ~thread_pool
\* not entered
IdlePool ==
    /\ tasks = <<>>
    /\ workers = [w \in Workers |-> Waiting]
    /\ enq = 0
    /\ shared = [c \in 1..MaxCalls |-> 0]
    /\ outcome = [c \in 1..MaxCalls |-> [id \in Ids |-> NotInvoked]]
    /\ calls = <<>>
    /\ stop = FALSE
    /\ queue_mu = Free
    /\ pending = 0
    /\ dtor = [at |-> "alive", i |-> 0]
    /\ stop_req = {}
    /\ ran = {}

\* an owned_id object that has not been constructed
NoHandle == [state |-> "none", id |-> NoId, type |-> NoType, explicit |-> FALSE]

\* no once wrapper and no owned_id exists
NoHandles ==
    /\ once_ids = {}
    /\ fired = {}
    /\ owned = [h \in Handles |-> NoHandle]
    /\ fires = [id \in Ids |-> 0]

\* a client thread that is not inside a call
Ready == [op |-> "ready", type |-> NoType, priority |-> 0, id |-> NoId,
          events |-> <<>>, done |-> <<>>, at |-> "entry"]

\* a freshly constructed bus in a build with the given gc configuration
InitBus(enabled) ==
    /\ subs = EmptyMap
    /\ id_counter = 0
    /\ gc_enabled = enabled
    /\ scan = Idle
    /\ ret = NoCall
    /\ issued = <<>>
    /\ mu = Free
    /\ pc = Ready
    /\ event = 0
    /\ IdlePool
    /\ NoHandles

\* the default build: garbage collection of empty buckets is compiled in
Init == InitBus(TRUE)

\* a build with EVENTUS_NO_BUS_GC defined
InitNoGC == InitBus(FALSE)

(* ---- subscribe ------------------------------------------------------- *)
\* a fetch_add that leaves the counter where it was
fetch_add_none(counter) == counter

\* id_counter.fetch_add(1): the value the counter holds afterwards (the call
\* returns the value it held before)
fetch_add(counter) == counter + 1

\* the whole call, executed while no other thread is inside the bus
subscribe(t, priority) ==
    /\ mu = Free
    /\ ~scan.active
    /\ id_counter < MaxIds
    /\ LET id  == id_counter
           vec == Append(bucket_ref(subs, t), subscriber(id, priority))
       IN  \E sorted \in std_sort(vec) :
              /\ subs' = gc(with_bucket(subs, t, sorted), gc_enabled)
              /\ id_counter' = fetch_add(id_counter)
              /\ issued' = Append(issued, id)
              /\ ret' = [op |-> "subscribe", type |-> t, id |-> id,
                         status |-> OK, invoked |-> <<>>]
    /\ UNCHANGED <<gc_enabled, scan, thread_vars, pool_vars, life_vars, handle_vars>>

(* ---- unsubscribe<EventT>(b, id) ---------------------------------------- *)
\* std::find_if(vec.begin(), vec.end(), s.id == id): the first matching
\* position, Len(vec) + 1 standing for vec.end()
find_if(vec, id) ==
    IF \E i \in 1..Len(vec) : vec[i].id = id
    THEN CHOOSE i \in 1..Len(vec) :
            /\ vec[i].id = id
            /\ \A j \in 1..(i - 1) : vec[j].id # id
    ELSE Len(vec) + 1

\* vec.erase(sub_it, vec.end()): drops the element at position i and all after it
erase_from(vec, i) == SubSeq(vec, 1, i - 1)

\* vec.erase(sub_it): drops the one element at position i
erase_at(vec, i) == SubSeq(vec, 1, i - 1) \o SubSeq(vec, i + 1, Len(vec))

\* the status unsubscribe<EventT> returns
unsubscribe_status(s, t, id) ==
    IF t \notin DOMAIN s THEN EVENT_TYPE_NOT_REGISTERED
    ELSE IF find_if(s[t], id) # Len(s[t]) + 1 THEN OK
    ELSE NO_SUBSCRIBERS_FOR_EVENT_TYPE

\* an unsubscribe that empties the bucket when the id is not in it
unsubscribe_subs_clearing(s, t, id, enabled) ==
    IF t \notin DOMAIN s THEN s
    ELSE LET sub_it == find_if(s[t], id)
         IN  IF sub_it # Len(s[t]) + 1
             THEN gc(with_bucket(s, t, erase_at(s[t], sub_it)), enabled)
             ELSE gc(with_bucket(s, t, <<>>), enabled)

\* the registry unsubscribe<EventT> leaves behind
unsubscribe_subs(s, t, id, enabled) ==
    IF t \notin DOMAIN s THEN s
    ELSE LET sub_it == find_if(s[t], id)
         IN  IF sub_it # Len(s[t]) + 1
             THEN gc(with_bucket(s, t, erase_at(s[t], sub_it)), enabled)
             ELSE s

unsubscribe_typed(t, id) ==
    /\ mu = Free
    /\ ~scan.active
    /\ subs' = unsubscribe_subs(subs, t, id, gc_enabled)
    /\ ret' = [op |-> "unsubscribe", type |-> t, id |-> id,
               status |-> unsubscribe_status(subs, t, id), invoked |-> <<>>]
    /\ UNCHANGED <<id_counter, gc_enabled, scan, issued, thread_vars, pool_vars, life_vars, handle_vars>>

(* ---- unsubscribe(b, id), the type-erased form ------------------------- *)
\* std::remove_if(vec.begin(), vec.end(), s.id == id) followed by
\* vec.erase(new_end, vec.end()): the elements that do not match, in order
remove_if(vec, id) == SelectSeq(vec, LAMBDA e : e.id # id)

\* the call takes the lock and sets it = b->subs.begin(); the loop condition
\* it != b->subs.end() fails at once on an empty map. Which key begin()
\* designates is decided by the hash table, so any registered key may be it.
unsubscribe_any_call(id) ==
    /\ mu = Free
    /\ ~scan.active
    /\ IF DOMAIN subs = {}
       THEN /\ ret' = [op |-> "unsubscribe_any", type |-> NoType, id |-> id,
                       status |-> NO_SUBSCRIBER_WITH_ID, invoked |-> <<>>]
            /\ UNCHANGED scan
       ELSE /\ \E first \in DOMAIN subs :
                  scan' = [active |-> TRUE, id |-> id, it |-> first, iters |-> 0]
            /\ ret' = [op |-> "unsubscribe_any", type |-> NoType, id |-> id,
                       status |-> RUNNING, invoked |-> <<>>]
    /\ UNCHANGED <<subs, id_counter, gc_enabled, issued, thread_vars, pool_vars, life_vars, handle_vars>>

\* one execution of the loop body, then the loop condition. The for statement
\* has no increment expression and the body has no ++it: after a bucket
\* without the id the iterator still designates the same bucket, the
\* condition it != end holds again and the body runs again.
unsubscribe_any_iter ==
    /\ scan.active
    /\ LET vec     == subs[scan.it]
           new_end == remove_if(vec, scan.id)
       IN  IF Len(new_end) # Len(vec)
           THEN /\ subs' = gc(with_bucket(subs, scan.it, new_end), gc_enabled)
                /\ ret' = [op |-> "unsubscribe_any", type |-> NoType, id |-> scan.id,
                           status |-> OK, invoked |-> <<>>]
                /\ scan' = Idle
           ELSE /\ scan' = [scan EXCEPT !.iters = (@ + 1) % (MaxSpin + 1)]
                /\ UNCHANGED <<subs, ret>>
    /\ UNCHANGED <<id_counter, gc_enabled, issued, thread_vars, pool_vars, life_vars, handle_vars>>

(* ---- unsubscribe_event<EventT>(b) and unsubscribe_all(b) --------------- *)
\* erasing every key up to and including t
erase_upto(s, t) == [k \in {u \in DOMAIN s : u > t} |-> s[k]]

\* b->subs.erase(it): the map without key t
erase_key(s, t) == [k \in (DOMAIN s) \ {t} |-> s[k]]

unsubscribe_event(t) ==
    /\ mu = Free
    /\ ~scan.active
    /\ IF t \notin DOMAIN subs
       THEN /\ ret' = [op |-> "unsubscribe_event", type |-> t, id |-> NoId,
                       status |-> EVENT_TYPE_NOT_REGISTERED, invoked |-> <<>>]
            /\ UNCHANGED subs
       ELSE /\ subs' = gc(erase_key(subs, t), gc_enabled)
            /\ ret' = [op |-> "unsubscribe_event", type |-> t, id |-> NoId,
                       status |-> OK, invoked |-> <<>>]
    /\ UNCHANGED <<id_counter, gc_enabled, scan, issued, thread_vars, pool_vars, life_vars, handle_vars>>

\* emptying every bucket while keeping its key
clear_buckets(s) == [k \in DOMAIN s |-> <<>>]

\* b->subs.clear()
clear(s) == EmptyMap

unsubscribe_all ==
    /\ mu = Free
    /\ ~scan.active
    /\ subs' = clear(subs)
    /\ ret' = [op |-> "unsubscribe_all", type |-> NoType, id |-> NoId,
               status |-> OK, invoked |-> <<>>]
    /\ UNCHANGED <<id_counter, gc_enabled, scan, issued, thread_vars, pool_vars, life_vars, handle_vars>>

(* ---- publish<EventT>(b, data) ------------------------------------------ *)
\* a dispatch loop that ignores the callbacks' results (no break)
RECURSIVE dispatch_no_break(_, _, _)
dispatch_no_break(vec, rets, i) ==
    IF i > Len(vec) THEN <<>>
    ELSE <<[id |-> vec[i].id, result |-> rets[vec[i].id]]>>
            \o dispatch_no_break(vec, rets, i + 1)

\* the dispatch loop from position i on: invoke vec[i]; a false result breaks.
\* rets[id] is what the callback of subscriber id returns when it is invoked
\* (the callbacks are the caller's code: any result is possible).
RECURSIVE dispatch(_, _, _)
dispatch(vec, rets, i) ==
    IF i > Len(vec) THEN <<>>
    ELSE LET r == rets[vec[i].id]
         IN  <<[id |-> vec[i].id, result |-> r]>>
                \o (IF r THEN dispatch(vec, rets, i + 1) ELSE <<>>)

\* publish reporting a stopped propagation as a failure
publish_result_stop_fails(s, t, rets) ==
    IF t \notin DOMAIN s
    THEN [status |-> EVENT_TYPE_NOT_REGISTERED, invoked |-> <<>>]
    ELSE IF s[t] = <<>>
    THEN [status |-> NO_SUBSCRIBERS_FOR_EVENT_TYPE, invoked |-> <<>>]
    ELSE LET inv == dispatch(s[t], rets, 1)
         IN  [status |-> IF inv[Len(inv)].result THEN OK
                         ELSE NO_SUBSCRIBERS_FOR_EVENT_TYPE,
              invoked |-> inv]

\* status and invocations of one publish
publish_result(s, t, rets) ==
    IF t \notin DOMAIN s
    THEN [status |-> EVENT_TYPE_NOT_REGISTERED, invoked |-> <<>>]
    ELSE IF s[t] = <<>>
    THEN [status |-> NO_SUBSCRIBERS_FOR_EVENT_TYPE, invoked |-> <<>>]
    ELSE [status |-> OK, invoked |-> dispatch(s[t], rets, 1)]

publish(t, rets) ==
    /\ mu = Free
    /\ ~scan.active
    /\ LET r == publish_result(subs, t, rets)
       IN  ret' = [op |-> "publish", type |-> t, id |-> NoId,
                   status |-> r.status, invoked |-> r.invoked]
    /\ UNCHANGED <<subs, id_counter, gc_enabled, scan, issued, thread_vars, pool_vars, life_vars, handle_vars>>

(* ---- publish with the event's value ------------------------------------ *)
\* a dispatch loop that hands every subscriber its own copy of the argument
RECURSIVE dispatch_copies(_, _, _, _, _)
dispatch_copies(vec, rets, deltas, data, i) ==
    IF i > Len(vec) THEN <<>>
    ELSE LET id == vec[i].id
         IN  <<[id |-> id, result |-> rets[id], seen |-> data, delta |-> deltas[id]]>>
                \o (IF rets[id] THEN dispatch_copies(vec, rets, deltas, data, i + 1)
                    ELSE <<>>)

\* the dispatch loop with the event: every sub.invoke(&data) receives the
\* address of publish's one by-value parameter. The callback of subscriber id
\* finds the value data there, adds deltas[id] to it and returns rets[id].
RECURSIVE dispatch_event(_, _, _, _, _)
dispatch_event(vec, rets, deltas, data, i) ==
    IF i > Len(vec) THEN <<>>
    ELSE LET id == vec[i].id
         IN  <<[id |-> id, result |-> rets[id], seen |-> data, delta |-> deltas[id]]>>
                \o (IF rets[id]
                    THEN dispatch_event(vec, rets, deltas, data + deltas[id], i + 1)
                    ELSE <<>>)

\* the followed thread assigns a value to its event object
assign_event(v) ==
    /\ pc = Ready
    /\ event' = v
    /\ UNCHANGED <<bus_vars, mu, pc, pool_vars, life_vars, handle_vars>>

\* publish<EventT>(b, event): the parameter data is a copy of the caller's
\* object, which the call never touches
publish_event(t, rets, deltas) ==
    /\ pc = Ready
    /\ mu = Free
    /\ ~scan.active
    /\ ret' = [op |-> "publish", type |-> t, id |-> NoId,
               status |-> publish_result(subs, t, rets).status,
               invoked |-> dispatch_event(bucket_ref(subs, t), rets, deltas, event, 1),
               data |-> event]
    /\ UNCHANGED <<subs, id_counter, gc_enabled, scan, issued, thread_vars, pool_vars, life_vars, handle_vars>>

(* ---- subscribe as the followed thread executes it ----------------------- *)
\* mutex_scope(b->mu) at the top of subscribe: the thread takes the bus lock
subscribe_lock(t, priority) ==
    /\ pc = Ready
    /\ mu = Free
    /\ ~scan.active
    /\ id_counter < MaxIds
    /\ mu' = Caller
    /\ pc' = [Ready EXCEPT !.op = "subscribe", !.type = t, !.priority = priority]
    /\ UNCHANGED <<bus_vars, event, pool_vars, life_vars, handle_vars>>

\* int64_t id = b->id_counter.fetch_add(1)
subscribe_fetch_add ==
    /\ pc.op = "subscribe"
    /\ pc.id = NoId
    /\ pc' = [pc EXCEPT !.id = id_counter]
    /\ id_counter' = fetch_add(id_counter)
    /\ issued' = Append(issued, id_counter)
    /\ UNCHANGED <<subs, gc_enabled, scan, ret, mu, event, pool_vars, life_vars, handle_vars>>

\* push_back, std::sort, detail::gc, then the return releases the lock
subscribe_insert ==
    /\ pc.op = "subscribe"
    /\ pc.id # NoId
    /\ LET vec == Append(bucket_ref(subs, pc.type), subscriber(pc.id, pc.priority))
       IN  \E sorted \in std_sort(vec) :
              /\ subs' = gc(with_bucket(subs, pc.type, sorted), gc_enabled)
              /\ ret' = [op |-> "subscribe", type |-> pc.type, id |-> pc.id,
                         status |-> OK, invoked |-> <<>>]
    /\ mu' = Free
    /\ pc' = Ready
    /\ UNCHANGED <<id_counter, gc_enabled, scan, issued, event, pool_vars, life_vars, handle_vars>>

(* ---- publish_multi<EventTs...>(b, data...) ------------------------------ *)
\* a fold that keeps the first status that is not OK
first_failure(statuses) ==
    IF \E i \in 1..Len(statuses) : statuses[i] # OK
    THEN statuses[CHOOSE i \in 1..Len(statuses) :
                     /\ statuses[i] # OK
                     /\ \A j \in 1..(i - 1) : statuses[j] = OK]
    ELSE OK

\* e_status last_status = OK; ((last_status = publish(b, data)), ...);
\* return last_status: every assignment overwrites the one before
last_status(statuses) ==
    IF statuses = <<>> THEN OK ELSE statuses[Len(statuses)]

\* the call: the events are the arguments, nothing is locked yet
publish_multi_call(events) ==
    /\ pc = Ready
    /\ pc' = [Ready EXCEPT !.op = "publish_multi", !.events = events]
    /\ UNCHANGED <<bus_vars, mu, event, pool_vars, life_vars, handle_vars>>

\* the event the fold publishes next
next_event ==
    IF pc.op = "publish_multi" /\ Len(pc.done) < Len(pc.events)
    THEN pc.events[Len(pc.done) + 1]
    ELSE NoType

\* one operand of the fold, last_status = publish(b, data): publish takes the
\* bus lock, dispatches and releases the lock at its return
publish_multi_next(rets) ==
    /\ pc.op = "publish_multi"
    /\ Len(pc.done) < Len(pc.events)
    /\ mu = Free
    /\ ~scan.active
    /\ LET r == publish_result(subs, next_event, rets)
       IN  /\ ret' = [op |-> "publish", type |-> next_event, id |-> NoId,
                      status |-> r.status, invoked |-> r.invoked]
           /\ pc' = [pc EXCEPT !.done = Append(@, r.status)]
    /\ UNCHANGED <<subs, id_counter, gc_enabled, scan, issued, mu, event, pool_vars, life_vars, handle_vars>>

\* return last_status
publish_multi_return ==
    /\ pc.op = "publish_multi"
    /\ Len(pc.done) = Len(pc.events)
    /\ ret' = [op |-> "publish_multi", type |-> NoType, id |-> NoId,
               status |-> last_status(pc.done), invoked |-> pc.done]
    /\ pc' = Ready
    /\ UNCHANGED <<subs, id_counter, gc_enabled, scan, issued, mu, event, pool_vars, life_vars, handle_vars>>

(* ---- detail::thread_pool ------------------------------------------------ *)
\* tasks.back()
back(q) == q[Len(q)]

\* tasks.front()
front(q) == Head(q)

\* tasks.pop()
pop(q) == Tail(q)

\* thread_pool::enqueue called for each of the tasks in turn: every push
\* appends at the back; the k-th task pushed is given serial number first + k
enqueue(q, new, first) ==
    q \o [k \in 1..Len(new) |-> [new[k] EXCEPT !.serial = first + k]]

(* ---- publish_threaded<EventT>(b, data) ---------------------------------- *)
\* the lambda enqueued twice
threaded_tasks_twice(c, t) ==
    <<[kind |-> "threaded", call |-> c, type |-> t, sub |-> 0,
       id |-> NoId, gen |-> 0, data |-> "owned", serial |-> 0],
      [kind |-> "threaded", call |-> c, type |-> t, sub |-> 0,
       id |-> NoId, gen |-> 0, data |-> "owned", serial |-> 0]>>

\* the one lambda [b, data = std::move(data)] { publish(b, std::move(data)); }
threaded_tasks(c, t) ==
    <<[kind |-> "threaded", call |-> c, type |-> t, sub |-> 0,
       id |-> NoId, gen |-> 0, data |-> "owned", serial |-> 0]>>

\* a publish_threaded that looks the type up under the bus lock, as
\* publish_async does, and enqueues its task only when there is a subscriber
publish_threaded_checked(t) ==
    /\ mu = Free
    /\ ~scan.active
    /\ Len(calls) < MaxCalls
    /\ LET c      == Len(calls) + 1
           status == IF t \notin DOMAIN subs THEN EVENT_TYPE_NOT_REGISTERED
                     ELSE IF subs[t] = <<>> THEN NO_SUBSCRIBERS_FOR_EVENT_TYPE
                     ELSE OK
           new    == IF status = OK THEN threaded_tasks(c, t) ELSE <<>>
       IN  /\ tasks' = enqueue(tasks, new, enq)
           /\ enq' = enq + Len(new)
           /\ calls' = Append(calls, [kind |-> "threaded", type |-> t, status |-> status])
           /\ ret' = [op |-> "publish_threaded", type |-> t, id |-> NoId,
                      status |-> status, invoked |-> <<>>]
    /\ UNCHANGED <<subs, id_counter, gc_enabled, scan, issued, thread_vars,
                   workers, shared, outcome, life_vars, handle_vars>>

\* the call touches the pool's queue only: no bus lock, no lookup
publish_threaded(t) ==
    /\ Len(calls) < MaxCalls
    /\ LET c   == Len(calls) + 1
           new == threaded_tasks(c, t)
       IN  /\ tasks' = enqueue(tasks, new, enq)
           /\ enq' = enq + Len(new)
    /\ calls' = Append(calls, [kind |-> "threaded", type |-> t, status |-> OK])
    /\ ret' = [op |-> "publish_threaded", type |-> t, id |-> NoId,
               status |-> OK, invoked |-> <<>>]
    /\ UNCHANGED <<subs, id_counter, gc_enabled, scan, issued, thread_vars,
                   workers, shared, outcome, life_vars, handle_vars>>

(* ---- publish_async<EventT>(b, data) ------------------------------------- *)
\* a loop that enqueues a task for the first subscriber only
async_tasks_first_only(c, t, vec, counter) ==
    <<[kind |-> "async", call |-> c, type |-> t, sub |-> 1,
       id |-> vec[1].id, gen |-> counter,
       data |-> IF Len(vec) = 1 THEN "owned" ELSE "shared", serial |-> 0]>>

\* one lambda per element of the bucket vec, each capturing a reference to
\* its element (sub is the element's position, id the subscriber it holds,
\* counter the value of id_counter during the call): with one subscriber
\* the lambda holds the event itself, otherwise a copy of the shared_ptr
\* shared_data
async_tasks(c, t, vec, counter) ==
    IF Len(vec) = 1
    THEN <<[kind |-> "async", call |-> c, type |-> t, sub |-> 1,
            id |-> vec[1].id, gen |-> counter,
            data |-> "owned", serial |-> 0]>>
    ELSE [i \in 1..Len(vec) |->
             [kind |-> "async", call |-> c, type |-> t, sub |-> i,
              id |-> vec[i].id, gen |-> counter,
              data |-> "shared", serial |-> 0]]

\* lambdas that capture the raw pointer shared_data.get()
use_count_unowned(n) == 0

\* shared_data.use_count() when publish_async has returned: the local
\* shared_data is gone, each of the n queued lambdas holds one copy
use_count(n) == n

\* the status publish_async returns
publish_async_status(s, t) ==
    IF t \notin DOMAIN s THEN EVENT_TYPE_NOT_REGISTERED
    ELSE IF s[t] = <<>> THEN NO_SUBSCRIBERS_FOR_EVENT_TYPE
    ELSE OK

\* the whole call, made under the bus lock
publish_async(t) ==
    /\ mu = Free
    /\ ~scan.active
    /\ Len(calls) < MaxCalls
    /\ LET c      == Len(calls) + 1
           n      == Len(bucket_ref(subs, t))
           status == publish_async_status(subs, t)
           new    == IF status = OK
                     THEN async_tasks(c, t, bucket_ref(subs, t), id_counter)
                     ELSE <<>>
       IN  /\ tasks' = enqueue(tasks, new, enq)
           /\ enq' = enq + Len(new)
           /\ shared' = [shared EXCEPT ![c] = IF n > 1 THEN use_count(n) ELSE 0]
           /\ calls' = Append(calls, [kind |-> "async", type |-> t, status |-> status])
           /\ ret' = [op |-> "publish_async", type |-> t, id |-> NoId,
                      status |-> status, invoked |-> <<>>]
    /\ UNCHANGED <<subs, id_counter, gc_enabled, scan, issued, thread_vars,
                   workers, outcome, life_vars, handle_vars>>

(* ---- the worker loop ---------------------------------------------------- *)
\* cv.wait returns with queue_mu held and a task in the queue;
\* task = std::move(tasks.front()); tasks.pop(); then queue_mu is released
worker_take(w) ==
    /\ workers[w].state = "waiting"
    /\ tasks # <<>>
    /\ workers' = [workers EXCEPT ![w] = [state |-> "taken", task |-> front(tasks),
                                         pos |-> 0, inv |-> NoId]]
    /\ tasks' = pop(tasks)
    /\ UNCHANGED <<bus_vars, thread_vars, enq, shared, outcome, calls, life_vars, handle_vars>>

\* the ids subscribe has handed out since the reference of task was taken
issued_since(iss, task) == {i \in Range(iss) : i >= task.gen}

\* whether the reference a publish_async lambda holds still denotes the
\* element it was taken of: the bucket was not destroyed, no erase shifted
\* and no sort moved another subscriber into the slot, and no push_back into
\* the bucket (which may reallocate its buffer) happened since. A
\* subscriber added since and no longer registered may have been in the
\* bucket.
intact(s, iss, task) ==
    LET vec == bucket_ref(s, task.type)
    IN  /\ task.sub <= Len(vec)
        /\ vec[task.sub].id = task.id
        /\ \A i \in issued_since(iss, task) :
              /\ i \notin IdsOf(vec)
              /\ \E t \in DOMAIN s : i \in IdsOf(s[t])

\* sub.invoke(...) through the reference of a publish_async lambda: the
\* subscribers whose callback may run, NoId standing for a fault. Through an
\* intact reference the subscriber it was taken of runs. Through an
\* invalidated one the behaviour is undefined: the subscriber now in the
\* slot (the memory is that of the live bucket), the remains of any
\* subscriber object left in freed or destroyed memory, or a fault (a
\* moved-from subscriber has callback_storage == nullptr).
referent(s, iss, task) ==
    LET vec == bucket_ref(s, task.type)
    IN  IF intact(s, iss, task)
        THEN {task.id}
        ELSE (IF task.sub <= Len(vec) THEN {vec[task.sub].id} ELSE {})
                \cup Range(iss) \cup {NoId}

\* a lock that is handed to every thread that asks for it
can_lock_always(m, thread) == TRUE

\* whether std::recursive_mutex::lock returns for thread: the mutex is free
\* or thread owns it already
can_lock(m, thread) == m \in {Free, thread}

\* task(): a publish_threaded lambda enters publish, which takes the bus
\* lock, looks the type up and, unless it returns at once, invokes the first
\* subscriber; a publish_async lambda invokes the bucket element it refers
\* to and takes no lock
worker_run(w) ==
    /\ workers[w].state = "taken"
    /\ LET task == workers[w].task
           vec  == bucket_ref(subs, task.type)
       IN  IF task.kind = "threaded"
           THEN /\ can_lock(mu, Tid(w))
                /\ ~scan.active
                /\ IF vec = <<>>
                   THEN /\ workers' = [workers EXCEPT ![w] = Waiting]
                        /\ UNCHANGED <<mu, outcome>>
                   ELSE /\ mu' = Tid(w)
                        /\ workers' = [workers EXCEPT ![w].state = "invoking",
                                                      ![w].pos = 1]
                        /\ outcome' = [outcome EXCEPT ![task.call][vec[1].id] = Invoking]
           ELSE /\ \E x \in referent(subs, issued, task) :
                      IF x = NoId
                      THEN /\ workers' = [workers EXCEPT ![w].state = "faulted"]
                           /\ UNCHANGED outcome
                      ELSE /\ workers' = [workers EXCEPT ![w].state = "invoking",
                                                         ![w].pos = task.sub,
                                                         ![w].inv = x]
                           /\ outcome' = [outcome EXCEPT ![task.call][x] = Invoking]
                /\ UNCHANGED mu
    /\ UNCHANGED <<bus_vars, pc, event, tasks, enq, shared, calls, life_vars, handle_vars>>

\* the callback being run returns r. In publish the loop goes on to the next
\* subscriber when r is true and there is one, otherwise publish returns and
\* releases the bus lock. When the lambda has returned the worker's local
\* task is destroyed, and with it the lambda's copy of shared_data.
worker_return(w, r) ==
    /\ workers[w].state = "invoking"
    /\ LET task   == workers[w].task
           vec    == bucket_ref(subs, task.type)
           pos    == workers[w].pos
           result == IF r THEN ReturnedTrue ELSE ReturnedFalse
       IN  IF task.kind = "threaded"
           THEN /\ IF r /\ pos < Len(vec)
                   THEN /\ workers' = [workers EXCEPT ![w].pos = pos + 1]
                        /\ outcome' = [outcome EXCEPT
                                          ![task.call][vec[pos].id] = result,
                                          ![task.call][vec[pos + 1].id] = Invoking]
                        /\ UNCHANGED mu
                   ELSE /\ workers' = [workers EXCEPT ![w] = Waiting]
                        /\ outcome' = [outcome EXCEPT ![task.call][vec[pos].id] = result]
                        /\ mu' = Free
                /\ UNCHANGED shared
           ELSE /\ workers' = [workers EXCEPT ![w] = Waiting]
                /\ outcome' = [outcome EXCEPT ![task.call][workers[w].inv] = result]
                /\ shared' = IF task.data = "shared"
                             THEN [shared EXCEPT ![task.call] = @ - 1]
                             ELSE shared
                /\ UNCHANGED mu
    /\ UNCHANGED <<bus_vars, pc, event, tasks, enq, calls, life_vars, handle_vars>>

(* ---- the pool's life: worker loop, enqueue and ~thread_pool step by step - *)
\* the state of a worker's loop in a pool whose constructor has just
\* returned: the thread is at the test of its while loop
AtLoopTest == [state |-> "test", task |-> NoTask, pos |-> 0, inv |-> NoId]

\* ~thread_pool has not been entered
Alive == [at |-> "alive", i |-> 0]

\* a task handed to enqueue, known by its serial number only
Job(n) == [NoTask EXCEPT !.kind = "job", !.serial = n]

\* a pool right after construction, on a bus nothing was called on
LifeInit ==
    /\ subs = EmptyMap
    /\ id_counter = 0
    /\ gc_enabled = TRUE
    /\ scan = Idle
    /\ ret = NoCall
    /\ issued = <<>>
    /\ mu = Free
    /\ pc = Ready
    /\ event = 0
    /\ tasks = <<>>
    /\ workers = [w \in Workers |-> AtLoopTest]
    /\ enq = 0
    /\ shared = [c \in 1..MaxCalls |-> 0]
    /\ outcome = [c \in 1..MaxCalls |-> [id \in Ids |-> NotInvoked]]
    /\ calls = <<>>
    /\ stop = FALSE
    /\ queue_mu = Free
    /\ pending = 0
    /\ dtor = Alive
    /\ stop_req = {}
    /\ ran = {}
    /\ NoHandles

\* the threads blocked inside cv.wait
waiters == {w \in Workers : workers[w].state = "blocked"}

\* the members stop, cv, queue_mu and tasks are declared after workers, so
\* they are destroyed before the jthreads are stopped and joined
Destroyed == dtor.at \in {"request_stop", "join", "done"}

\* cv.notify_one() delivered to nobody
notify_none(blocked) == {{}}

\* cv.notify_one(): the sets of threads it may wake, one of the blocked
\* threads when there is one
notify_one(blocked) == IF blocked = {} THEN {{}} ELSE {{w} : w \in blocked}

\* cv.notify_all(): every blocked thread is woken
notify_all(blocked) == {blocked}

\* the threads in woken leave cv.wait's block and go on to re-acquire queue_mu
wake(ws, woken) ==
    [w \in Workers |-> IF w \in woken THEN [ws[w] EXCEPT !.state = "woken"] ELSE ws[w]]

\* enqueue, first statement: { mutex_scope(queue_mu); tasks.push(task); }
enqueue_push ==
    /\ dtor = Alive
    /\ enq < MaxTasks
    /\ queue_mu = Free
    /\ tasks' = enqueue(tasks, <<Job(0)>>, enq)
    /\ enq' = enq + 1
    /\ pending' = pending + 1
    /\ UNCHANGED <<bus_vars, thread_vars, handle_vars, workers, shared, outcome, calls,
                   stop, queue_mu, dtor, stop_req, ran>>

\* enqueue, second statement: cv.notify_one(), after queue_mu was released
enqueue_notify ==
    /\ pending > 0
    /\ pending' = pending - 1
    /\ \E woken \in notify_one(waiters) : workers' = wake(workers, woken)
    /\ UNCHANGED <<bus_vars, thread_vars, handle_vars, tasks, enq, shared, outcome, calls,
                   stop, queue_mu, dtor, stop_req, ran>>

\* while (!st.stop_requested() && !stop)
worker_test(w) ==
    /\ workers[w].state = "test"
    /\ workers' = [workers EXCEPT ![w].state =
                      IF w \notin stop_req /\ ~stop THEN "lock" ELSE "exited"]
    /\ UNCHANGED <<bus_vars, thread_vars, handle_vars, tasks, enq, shared, outcome, calls, life_vars>>

\* std::unique_lock lock(queue_mu), and the re-locking of queue_mu by a
\* thread that was woken inside cv.wait
worker_lock(w) ==
    /\ workers[w].state \in {"lock", "woken"}
    /\ queue_mu = Free
    /\ queue_mu' = Tid(w)
    /\ workers' = [workers EXCEPT ![w].state = "pred"]
    /\ UNCHANGED <<bus_vars, thread_vars, handle_vars, tasks, enq, shared, outcome, calls,
                   stop, pending, dtor, stop_req, ran>>

\* cv.wait(lock, pred) evaluates
\* pred = stop || !tasks.empty() || st.stop_requested() with queue_mu held
worker_pred(w) ==
    /\ workers[w].state = "pred"
    /\ workers' = [workers EXCEPT ![w].state =
                      IF stop \/ tasks # <<>> \/ w \in stop_req THEN "check" ELSE "wait"]
    /\ UNCHANGED <<bus_vars, thread_vars, handle_vars, tasks, enq, shared, outcome, calls, life_vars>>

\* pred was false: cv.wait releases queue_mu and blocks, in one step as far
\* as threads that notify with queue_mu held can tell
worker_wait(w) ==
    /\ workers[w].state = "wait"
    /\ queue_mu' = Free
    /\ workers' = [workers EXCEPT ![w].state = "blocked"]
    /\ UNCHANGED <<bus_vars, thread_vars, handle_vars, tasks, enq, shared, outcome, calls,
                   stop, pending, dtor, stop_req, ran>>

\* a spurious wake-up, which condition_variable::wait permits
worker_spurious(w) ==
    /\ workers[w].state = "blocked"
    /\ workers' = wake(workers, {w})
    /\ UNCHANGED <<bus_vars, thread_vars, handle_vars, tasks, enq, shared, outcome, calls, life_vars>>

\* a worker that keeps queue_mu while it runs the task it took
worker_check_holding(w) ==
    /\ workers[w].state = "check"
    /\ IF (stop \/ w \in stop_req) /\ tasks = <<>>
       THEN /\ workers' = [workers EXCEPT ![w].state = "exited"]
            /\ queue_mu' = Free
            /\ UNCHANGED tasks
       ELSE /\ workers' = [workers EXCEPT ![w].state = "run", ![w].task = front(tasks)]
            /\ tasks' = pop(tasks)
            /\ UNCHANGED queue_mu
    /\ UNCHANGED <<bus_vars, thread_vars, handle_vars, enq, shared, outcome, calls,
                   stop, pending, dtor, stop_req, ran>>

\* if ((stop || st.stop_requested()) && tasks.empty()) return;
\* task = std::move(tasks.front()); tasks.pop(); the block ends and
\* releases queue_mu, and task() is entered
worker_check(w) ==
    /\ workers[w].state = "check"
    /\ queue_mu' = Free
    /\ IF (stop \/ w \in stop_req) /\ tasks = <<>>
       THEN /\ workers' = [workers EXCEPT ![w].state = "exited"]
            /\ UNCHANGED tasks
       ELSE /\ workers' = [workers EXCEPT ![w].state = "run", ![w].task = front(tasks)]
            /\ tasks' = pop(tasks)
    /\ UNCHANGED <<bus_vars, thread_vars, handle_vars, enq, shared, outcome, calls,
                   stop, pending, dtor, stop_req, ran>>

\* task() returns; the loop goes back to its test
worker_done(w) ==
    /\ workers[w].state = "run"
    /\ ran' = ran \cup {workers[w].task.serial}
    /\ workers' = [workers EXCEPT ![w] = AtLoopTest]
    /\ UNCHANGED <<bus_vars, thread_vars, handle_vars, tasks, enq, shared, outcome, calls,
                   stop, queue_mu, pending, dtor, stop_req>>

\* a worker that uses stop, queue_mu, cv or tasks after their destruction
\* has undefined behaviour: the thread may carry on as if the members were
\* alive (the actions above) or fault
worker_fault(w) ==
    /\ Destroyed
    /\ workers[w].state \in {"test", "lock", "woken", "pred", "wait", "check"}
    /\ workers' = [workers EXCEPT ![w].state = "faulted"]
    /\ queue_mu' = IF queue_mu = Tid(w) THEN Free ELSE queue_mu
    /\ UNCHANGED <<bus_vars, thread_vars, handle_vars, tasks, enq, shared, outcome, calls,
                   stop, pending, dtor, stop_req, ran>>

\* ~thread_pool, first statement: stop = true, queue_mu not held
dtor_stop ==
    /\ dtor = Alive
    /\ pending = 0
    /\ stop' = TRUE
    /\ dtor' = [dtor EXCEPT !.at = "stopped"]
    /\ UNCHANGED <<bus_vars, thread_vars, handle_vars, pool_vars, queue_mu, pending, stop_req, ran>>

\* ~thread_pool, second statement: cv.notify_all(), queue_mu not held
dtor_notify ==
    /\ dtor.at = "stopped"
    /\ \E woken \in notify_all(waiters) : workers' = wake(workers, woken)
    /\ dtor' = [dtor EXCEPT !.at = "notified"]
    /\ UNCHANGED <<bus_vars, thread_vars, handle_vars, tasks, enq, shared, outcome, calls,
                   stop, queue_mu, pending, stop_req, ran>>

\* the destructor's body is over: stop, cv, queue_mu and tasks are
\* destroyed, in this order. Destroying cv while a thread is blocked on it
\* is undefined: the destructor either returns or never does
dtor_members ==
    /\ dtor.at = "notified"
    /\ \E hangs \in (IF waiters = {} THEN {FALSE} ELSE BOOLEAN) :
          dtor' = IF hangs THEN [dtor EXCEPT !.at = "hung"]
                  ELSE [at |-> "request_stop", i |-> 1]
    /\ UNCHANGED <<bus_vars, thread_vars, handle_vars, pool_vars, stop, queue_mu, pending, stop_req, ran>>

\* ~jthread of workers[i]: request_stop()
dtor_request_stop ==
    /\ dtor.at = "request_stop"
    /\ stop_req' = stop_req \cup {dtor.i}
    /\ dtor' = [dtor EXCEPT !.at = "join"]
    /\ UNCHANGED <<bus_vars, thread_vars, handle_vars, pool_vars, stop, queue_mu, pending, ran>>

\* ~jthread of workers[i]: join() returns when the thread has exited; the
\* destruction of the vector goes on with the next element
dtor_join ==
    /\ dtor.at = "join"
    /\ workers[dtor.i].state = "exited"
    /\ dtor' = IF dtor.i < MaxWorkers
               THEN [at |-> "request_stop", i |-> dtor.i + 1]
               ELSE [at |-> "done", i |-> dtor.i]
    /\ UNCHANGED <<bus_vars, thread_vars, handle_vars, pool_vars, stop, queue_mu, pending, stop_req, ran>>

(* ---- once<EventT>(b, f) ------------------------------------------------- *)
\* a wrapper that never unsubscribes itself
once_unsubscribes_never(r) == FALSE

\* whether the wrapper unsubscribes itself once its callback has returned r:
\* it does, regardless of r
once_unsubscribes(r) == TRUE

\* a wrapper that always tells the dispatcher to continue
once_result_continue(r) == TRUE

\* what the wrapper returns to the dispatcher when its callback returned r:
\* the original value
once_result(r) == r

\* once: the callback is wrapped, the wrapper is registered by subscribe with
\* the default priority, and the id subscribe returned is bound into the
\* wrapper
once(t) ==
    /\ mu = Free
    /\ ~scan.active
    /\ id_counter < MaxIds
    /\ LET id  == id_counter
           vec == Append(bucket_ref(subs, t), subscriber(id, 0))
       IN  \E sorted \in std_sort(vec) :
              /\ subs' = gc(with_bucket(subs, t, sorted), gc_enabled)
              /\ id_counter' = fetch_add(id_counter)
              /\ issued' = Append(issued, id)
              /\ once_ids' = once_ids \cup {id}
              /\ ret' = [op |-> "once", type |-> t, id |-> id,
                         status |-> OK, invoked |-> <<>>]
    /\ UNCHANGED <<gc_enabled, scan, thread_vars, pool_vars, life_vars,
                   fired, owned, fires>>

\* what the dispatcher gets from each subscriber of a bucket when the
\* callbacks return rets: a once wrapper hands on what once_result makes of
\* its callback's value
wrapped(rets) ==
    [id \in DOMAIN rets |-> IF id \in once_ids THEN once_result(rets[id]) ELSE rets[id]]

\* the registry after the once wrappers among the invoked subscribers, from
\* the k-th on, have each called unsubscribe<EventT>(b, own id); rets are the
\* values their callbacks returned
RECURSIVE once_unsubscribed(_, _, _, _, _)
once_unsubscribed(s, t, inv, rets, k) ==
    IF k > Len(inv) THEN s
    ELSE LET id == inv[k].id
         IN  once_unsubscribed(
                IF id \in once_ids /\ once_unsubscribes(rets[id])
                THEN unsubscribe_subs(s, t, id, gc_enabled)
                ELSE s,
                t, inv, rets, k + 1)

\* publish<EventT> on a bus that may hold once wrappers: the dispatch of
\* publish, in which every wrapper invoked runs its callback and then
\* unsubscribes itself
publish_once(t, rets) ==
    /\ mu = Free
    /\ ~scan.active
    /\ LET r == publish_result(subs, t, wrapped(rets))
       IN  /\ ret' = [op |-> "publish", type |-> t, id |-> NoId,
                      status |-> r.status, invoked |-> r.invoked, returned |-> rets]
           /\ subs' = once_unsubscribed(subs, t, r.invoked, rets, 1)
           /\ fired' = fired \cup {[id |-> o, type |-> t] : o \in IdsOf(r.invoked) \cap once_ids}
    /\ UNCHANGED <<id_counter, gc_enabled, scan, issued, thread_vars, pool_vars,
                   life_vars, once_ids, owned, fires>>

(* ---- owned_id -------------------------------------------------------------- *)
\* owned_id::valid(): the object is armed, it holds a subscription that it
\* will unsubscribe
valid(o) == o.state = "armed"

\* an owned_id that stays armed after it fired
after_fire_armed(o) == o

\* the owned_id after it fired its unsubscribe: disarmed
after_fire(o) == [o EXCEPT !.state = "disarmed"]

\* a destructor that never unsubscribes
destroy_fires_never(o) == FALSE

\* whether ~owned_id fires the unsubscribe: if the object is still armed
destroy_fires(o) == valid(o)

\* a release that unsubscribes
release_unsubscribes(s, o) == unsubscribe_subs(s, o.type, o.id, gc_enabled)

\* the registry after release() on o: release does not fire
release_subs(s, o) == s

\* the owned_id objects not yet constructed; objects are constructed in the
\* order of their numbers
fresh(h) ==
    /\ owned[h].state = "none"
    /\ \A g \in Handles : g < h => owned[g].state # "none"

\* the call unsubscribe<EventT>(b, id) an owned_id fires for the (id, type)
\* it wraps
fire(o) ==
    /\ subs' = unsubscribe_subs(subs, o.type, o.id, gc_enabled)
    /\ fires' = [fires EXCEPT ![o.id] = @ + 1]

\* subscribe<EventT>(b, f).scoped(): a subscriber is registered with the
\* default priority and the id returned is converted into owned_id h
owned_scoped(h, t) ==
    /\ mu = Free
    /\ ~scan.active
    /\ id_counter < MaxIds
    /\ fresh(h)
    /\ LET id  == id_counter
           vec == Append(bucket_ref(subs, t), subscriber(id, 0))
       IN  \E sorted \in std_sort(vec) :
              /\ subs' = gc(with_bucket(subs, t, sorted), gc_enabled)
              /\ id_counter' = fetch_add(id_counter)
              /\ issued' = Append(issued, id)
              /\ owned' = [owned EXCEPT ![h] = [state |-> "armed", id |-> id,
                                                type |-> t, explicit |-> FALSE]]
              /\ ret' = [op |-> "scoped", type |-> t, id |-> id,
                         status |-> OK, invoked |-> <<>>]
    /\ UNCHANGED <<gc_enabled, scan, thread_vars, pool_vars, life_vars,
                   once_ids, fired, fires>>

\* h.unsubscribe(): fires if h is armed and disarms it; on an object that is
\* not armed it does nothing and reports no error
owned_unsubscribe(h) ==
    /\ mu = Free
    /\ ~scan.active
    /\ owned[h].state \in {"armed", "disarmed"}
    /\ LET o == owned[h]
       IN  IF valid(o)
           THEN /\ fire(o)
                /\ owned' = [owned EXCEPT ![h] = [after_fire(o) EXCEPT !.explicit = TRUE]]
                /\ ret' = [op |-> "owned_unsubscribe", type |-> o.type, id |-> o.id,
                           status |-> unsubscribe_status(subs, o.type, o.id),
                           invoked |-> <<>>]
           ELSE /\ ret' = [op |-> "owned_unsubscribe", type |-> NoType, id |-> NoId,
                           status |-> OK, invoked |-> <<>>]
                /\ UNCHANGED <<subs, fires, owned>>
    /\ UNCHANGED <<id_counter, gc_enabled, scan, issued, thread_vars, pool_vars,
                   life_vars, once_ids, fired>>

\* h.release(): disarms h without firing and returns the raw id, an invalid
\* id when h holds none
owned_release(h) ==
    /\ owned[h].state \in {"armed", "disarmed"}
    /\ LET o == owned[h]
       IN  /\ subs' = release_subs(subs, o)
           /\ owned' = [owned EXCEPT ![h].state = "disarmed"]
           /\ ret' = [op |-> "release", type |-> IF valid(o) THEN o.type ELSE NoType,
                      id |-> IF valid(o) THEN o.id ELSE NoId,
                      status |-> OK, invoked |-> <<>>]
    /\ UNCHANGED <<id_counter, gc_enabled, scan, issued, thread_vars, pool_vars,
                   life_vars, once_ids, fired, fires>>

\* owned_id g(std::move(h)): g takes over what h held, h is left disarmed
owned_move(h, g) ==
    /\ owned[h].state \in {"armed", "disarmed"}
    /\ fresh(g)
    /\ owned' = [owned EXCEPT ![g] = [owned[h] EXCEPT !.explicit = FALSE],
                              ![h].state = "disarmed"]
    /\ UNCHANGED <<bus_vars, thread_vars, pool_vars, life_vars, once_ids, fired, fires>>

\* ~owned_id: fires if the object is still armed
owned_destroy(h) ==
    /\ mu = Free
    /\ ~scan.active
    /\ owned[h].state \in {"armed", "disarmed"}
    /\ LET o == owned[h]
       IN  IF destroy_fires(o)
           THEN /\ fire(o)
                /\ ret' = [op |-> "owned_destroy", type |-> o.type, id |-> o.id,
                           status |-> unsubscribe_status(subs, o.type, o.id),
                           invoked |-> <<>>]
           ELSE UNCHANGED <<subs, fires, ret>>
    /\ owned' = [owned EXCEPT ![h].state = "destroyed"]
    /\ UNCHANGED <<id_counter, gc_enabled, scan, issued, thread_vars, pool_vars,
                   life_vars, once_ids, fired>>

(* ---- subscribe_multi<EventTs...>(b, func, priority) -------------------------- *)
\* a push that puts the new id in front
push_front(ids, id) == <<id>> \o ids

\* ids.push_back(id)
push_back(ids, id) == Append(ids, id)

\* the lists of distinct event types a call can name
TypeLists ==
    UNION {{s \in [1..n -> Types] : \A i, j \in 1..n : i # j => s[i] # s[j]} :
              n \in 1..MaxTypes}

\* the call: ids is empty, nothing is locked yet
subscribe_multi_call(types, priority) ==
    /\ pc = Ready
    /\ pc' = [Ready EXCEPT !.op = "subscribe_multi", !.events = types,
                           !.priority = priority]
    /\ UNCHANGED <<bus_vars, mu, event, pool_vars, life_vars, handle_vars>>

\* the type the fold subscribes to next
next_type ==
    IF pc.op = "subscribe_multi" /\ Len(pc.done) < Len(pc.events)
    THEN pc.events[Len(pc.done) + 1]
    ELSE NoType

\* one operand of the fold, ids.push_back(subscribe<EventT>(b, func,
\* priority)): subscribe takes the bus lock, registers and releases the lock
\* at its return
subscribe_multi_next ==
    /\ pc.op = "subscribe_multi"
    /\ Len(pc.done) < Len(pc.events)
    /\ mu = Free
    /\ ~scan.active
    /\ id_counter < MaxIds
    /\ LET id  == id_counter
           vec == Append(bucket_ref(subs, next_type), subscriber(id, pc.priority))
       IN  \E sorted \in std_sort(vec) :
              /\ subs' = gc(with_bucket(subs, next_type, sorted), gc_enabled)
              /\ id_counter' = fetch_add(id_counter)
              /\ issued' = Append(issued, id)
              /\ ret' = [op |-> "subscribe", type |-> next_type, id |-> id,
                         status |-> OK, invoked |-> <<>>]
              /\ pc' = [pc EXCEPT !.done = push_back(@, id)]
    /\ UNCHANGED <<gc_enabled, scan, mu, event, pool_vars, life_vars, handle_vars>>

\* return ids
subscribe_multi_return ==
    /\ pc.op = "subscribe_multi"
    /\ Len(pc.done) = Len(pc.events)
    /\ ret' = [op |-> "subscribe_multi", type |-> NoType, id |-> NoId,
               status |-> OK, invoked |-> <<>>, types |-> pc.events, ids |-> pc.done]
    /\ pc' = Ready
    /\ UNCHANGED <<subs, id_counter, gc_enabled, scan, issued, mu, event, pool_vars,
                   life_vars, handle_vars>>

(* ---- publish_threaded_multi and publish_async_multi ----------------------------- *)
\* a fold that returns the status of its last operand, as publish_multi does
status_of_last(statuses) ==
    IF statuses = <<>> THEN OK ELSE statuses[Len(statuses)]

\* (publish_threaded(b, std::move(data)), ...); return OK; and the same with
\* publish_async: the operands' values are discarded by the comma fold
status_of_fold(statuses) == OK

\* the call of either function: the events are the arguments, nothing is
\* locked yet (kind is "threaded" or "async")
pool_multi_call(kind, events) ==
    /\ pc = Ready
    /\ Len(calls) + Len(events) <= MaxCalls
    /\ pc' = [Ready EXCEPT !.op = kind, !.events = events]
    /\ UNCHANGED <<bus_vars, mu, event, pool_vars, life_vars, handle_vars>>

\* the event the fold passes on next
next_pool_event ==
    IF pc.op \in {"threaded", "async"} /\ Len(pc.done) < Len(pc.events)
    THEN pc.events[Len(pc.done) + 1]
    ELSE NoType

\* one operand of the fold of publish_threaded_multi: a publish_threaded call
publish_threaded_multi_next ==
    /\ pc.op = "threaded"
    /\ Len(pc.done) < Len(pc.events)
    /\ LET c   == Len(calls) + 1
           new == threaded_tasks(c, next_pool_event)
       IN  /\ tasks' = enqueue(tasks, new, enq)
           /\ enq' = enq + Len(new)
    /\ calls' = Append(calls, [kind |-> "threaded", type |-> next_pool_event,
                               status |-> OK])
    /\ ret' = [op |-> "publish_threaded", type |-> next_pool_event, id |-> NoId,
               status |-> OK, invoked |-> <<>>]
    /\ pc' = [pc EXCEPT !.done = Append(@, OK)]
    /\ UNCHANGED <<subs, id_counter, gc_enabled, scan, issued, mu, event,
                   workers, shared, outcome, life_vars, handle_vars>>

\* one operand of the fold of publish_async_multi: a publish_async call,
\* which takes the bus lock and releases it at its return
publish_async_multi_next ==
    /\ pc.op = "async"
    /\ Len(pc.done) < Len(pc.events)
    /\ mu = Free
    /\ ~scan.active
    /\ LET c      == Len(calls) + 1
           t      == next_pool_event
           n      == Len(bucket_ref(subs, t))
           status == publish_async_status(subs, t)
           new    == IF status = OK
                     THEN async_tasks(c, t, bucket_ref(subs, t), id_counter)
                     ELSE <<>>
       IN  /\ tasks' = enqueue(tasks, new, enq)
           /\ enq' = enq + Len(new)
           /\ shared' = [shared EXCEPT ![c] = IF n > 1 THEN use_count(n) ELSE 0]
           /\ calls' = Append(calls, [kind |-> "async", type |-> t, status |-> status])
           /\ ret' = [op |-> "publish_async", type |-> t, id |-> NoId,
                      status |-> status, invoked |-> <<>>]
           /\ pc' = [pc EXCEPT !.done = Append(@, status)]
    /\ UNCHANGED <<subs, id_counter, gc_enabled, scan, issued, mu, event,
                   workers, outcome, life_vars, handle_vars>>

\* return OK
pool_multi_return ==
    /\ pc.op \in {"threaded", "async"}
    /\ Len(pc.done) = Len(pc.events)
    /\ ret' = [op |-> IF pc.op = "async" THEN "publish_async_multi"
                      ELSE "publish_threaded_multi",
               type |-> NoType, id |-> NoId,
               status |-> status_of_fold(pc.done), invoked |-> pc.done]
    /\ pc' = Ready
    /\ UNCHANGED <<subs, id_counter, gc_enabled, scan, issued, mu, event, pool_vars, life_vars, handle_vars>>

(* ---- publish, publish_threaded and publish_async statement by statement ---------- *)
\* a client thread other than the followed one
Other == Caller + MaxWorkers + 1

\* the followed thread calls f (publish, publish_threaded or publish_async)
\* with an event of type t; it is at the function's first statement
client_call(f, t) ==
    /\ pc = Ready
    /\ f \in {"publish_threaded", "publish_async"} => Len(calls) < MaxCalls
    /\ pc' = [Ready EXCEPT !.op = f, !.type = t]
    /\ UNCHANGED <<bus_vars, mu, event, pool_vars, life_vars, handle_vars>>

\* publish: mutex_scope(b->mu), the lookup and, unless the function returns
\* at once, the call of the first subscriber (pc.id is the subscriber whose
\* callback the thread executes)
client_publish_lock ==
    /\ pc.op = "publish"
    /\ pc.at = "entry"
    /\ can_lock(mu, Caller)
    /\ ~scan.active
    /\ LET vec == bucket_ref(subs, pc.type)
       IN  IF vec = <<>>
           THEN /\ ret' = [op |-> "publish", type |-> pc.type, id |-> NoId,
                           status |-> publish_result(subs, pc.type, <<>>).status,
                           invoked |-> <<>>]
                /\ pc' = Ready
                /\ UNCHANGED mu
           ELSE /\ mu' = Caller
                /\ pc' = [pc EXCEPT !.at = "dispatch", !.id = vec[1].id]
                /\ UNCHANGED ret
    /\ UNCHANGED <<subs, id_counter, gc_enabled, scan, issued, event, pool_vars,
                   life_vars, handle_vars>>

\* the callback returns r: the loop goes on to the next subscriber when r is
\* true and there is one, otherwise publish returns OK and the lock is
\* released
client_publish_return(r) ==
    /\ pc.op = "publish"
    /\ pc.at = "dispatch"
    /\ LET vec     == bucket_ref(subs, pc.type)
           invoked == Append(pc.done, [id |-> pc.id, result |-> r])
           pos     == Len(invoked)
       IN  IF r /\ pos < Len(vec)
           THEN /\ pc' = [pc EXCEPT !.done = invoked, !.id = vec[pos + 1].id]
                /\ UNCHANGED <<mu, ret>>
           ELSE /\ ret' = [op |-> "publish", type |-> pc.type, id |-> NoId,
                           status |-> OK, invoked |-> invoked]
                /\ mu' = Free
                /\ pc' = Ready
    /\ UNCHANGED <<subs, id_counter, gc_enabled, scan, issued, event, pool_vars,
                   life_vars, handle_vars>>

\* publish_threaded: pool.enqueue, first statement
\* { mutex_scope(queue_mu); tasks.push(task); }
client_threaded_push ==
    /\ pc.op = "publish_threaded"
    /\ pc.at = "entry"
    /\ queue_mu = Free
    /\ LET c   == Len(calls) + 1
           new == threaded_tasks(c, pc.type)
       IN  /\ tasks' = enqueue(tasks, new, enq)
           /\ enq' = enq + Len(new)
    /\ calls' = Append(calls, [kind |-> "threaded", type |-> pc.type, status |-> OK])
    /\ pending' = pending + 1
    /\ pc' = [pc EXCEPT !.at = "notify"]
    /\ UNCHANGED <<bus_vars, mu, event, workers, shared, outcome,
                   stop, queue_mu, dtor, stop_req, ran, handle_vars>>

\* publish_async: mutex_scope(b->mu) and the lookup; a miss returns at once,
\* otherwise the thread goes on to enqueue with the bus lock held
client_async_lock ==
    /\ pc.op = "publish_async"
    /\ pc.at = "entry"
    /\ can_lock(mu, Caller)
    /\ ~scan.active
    /\ LET status == publish_async_status(subs, pc.type)
       IN  /\ calls' = Append(calls, [kind |-> "async", type |-> pc.type,
                                      status |-> status])
           /\ IF status = OK
              THEN /\ mu' = Caller
                   /\ pc' = [pc EXCEPT !.at = "enqueue"]
                   /\ UNCHANGED ret
              ELSE /\ ret' = [op |-> "publish_async", type |-> pc.type, id |-> NoId,
                              status |-> status, invoked |-> <<>>]
                   /\ pc' = Ready
                   /\ UNCHANGED mu
    /\ UNCHANGED <<subs, id_counter, gc_enabled, scan, issued, event,
                   tasks, workers, enq, shared, outcome, life_vars, handle_vars>>

\* publish_async: pool.enqueue of the lambda of the next subscriber, first
\* statement; the bus lock is held, the queue lock is taken and released
\* (pc.done lists the bucket positions whose lambda is in the queue)
client_async_push ==
    /\ pc.op = "publish_async"
    /\ pc.at = "enqueue"
    /\ queue_mu = Free
    /\ LET c   == Len(calls)
           vec == bucket_ref(subs, pc.type)
           k   == Len(pc.done) + 1
           new == <<async_tasks(c, pc.type, vec, id_counter)[k]>>
       IN  /\ tasks' = enqueue(tasks, new, enq)
           /\ enq' = enq + 1
           /\ shared' = [shared EXCEPT ![c] = IF Len(vec) > 1 THEN @ + 1 ELSE @]
           /\ pc' = [pc EXCEPT !.done = Append(@, k), !.at = "notify"]
    /\ pending' = pending + 1
    /\ UNCHANGED <<bus_vars, mu, event, workers, outcome, calls,
                   stop, queue_mu, dtor, stop_req, ran, handle_vars>>

\* pool.enqueue, second statement: cv.notify_one(); publish_async goes on
\* with the next subscriber when there is one
client_notify ==
    /\ pc.at = "notify"
    /\ \E woken \in notify_one(waiters) : workers' = wake(workers, woken)
    /\ pending' = pending - 1
    /\ pc' = [pc EXCEPT !.at =
                 IF /\ pc.op = "publish_async"
                    /\ Len(pc.done) < Len(bucket_ref(subs, pc.type))
                 THEN "enqueue" ELSE "return"]
    /\ UNCHANGED <<bus_vars, mu, event, tasks, enq, shared, outcome, calls,
                   stop, queue_mu, dtor, stop_req, ran, handle_vars>>

\* return OK; publish_async releases the bus lock
client_pool_return ==
    /\ pc.at = "return"
    /\ ret' = [op |-> pc.op, type |-> pc.type, id |-> NoId,
               status |-> OK, invoked |-> <<>>]
    /\ mu' = IF pc.op = "publish_async" THEN Free ELSE mu
    /\ pc' = Ready
    /\ UNCHANGED <<subs, id_counter, gc_enabled, scan, issued, event, pool_vars,
                   life_vars, handle_vars>>

\* another client thread enters a publish that finds subscribers: it takes
\* the bus lock and keeps it while their callbacks run
other_publish_lock ==
    /\ mu # Other
    /\ can_lock(mu, Other)
    /\ ~scan.active
    /\ \E t \in DOMAIN subs : subs[t] # <<>>
    /\ mu' = Other
    /\ UNCHANGED <<bus_vars, pc, event, pool_vars, life_vars, handle_vars>>

\* the callbacks of that publish have returned and the publish returns,
\* releasing the lock (what it returns goes to that thread, which is not
\* followed)
other_publish_return ==
    /\ mu = Other
    /\ mu' = Free
    /\ UNCHANGED <<bus_vars, pc, event, pool_vars, life_vars, handle_vars>>

\* task(): the worker calls the lambda it moved out of the queue
worker_call(w) ==
    /\ workers[w].state = "run"
    /\ workers' = [workers EXCEPT ![w].state = "taken"]
    /\ UNCHANGED <<bus_vars, thread_vars, handle_vars, tasks, enq, shared, outcome, calls, life_vars>>

\* the lambda has returned and the worker's local task is gone: the worker
\* is back at the test of its loop
worker_back(w) ==
    /\ workers[w].state = "waiting"
    /\ workers' = [workers EXCEPT ![w] = AtLoopTest]
    /\ UNCHANGED <<bus_vars, thread_vars, handle_vars, tasks, enq, shared, outcome, calls, life_vars>>

(* ---- callbacks that call back into the bus ------------------------------------------- *)
\* the followed thread is executing a subscriber's callback inside the
\* dispatch loop of its publish
InCallbackOfPublish == pc.op = "publish" /\ pc.at \in {"dispatch", "invalid"}

\* where the dispatch loop stands once the callback's call has left the
\* registry as next: when the bucket the loop iterates over was modified or
\* destroyed the loop's iterators and its reference to the element are
\* invalid
after_reentry(next) ==
    IF /\ pc.type \in DOMAIN next
       /\ next[pc.type] = bucket_ref(subs, pc.type)
    THEN pc
    ELSE [pc EXCEPT !.at = "invalid"]

\* the callback calls subscribe<EventT>: mutex_scope(b->mu) returns at once
\* because the thread owns the recursive mutex, and the call runs as usual
callback_subscribe(t, priority) ==
    /\ InCallbackOfPublish
    /\ can_lock(mu, Caller)
    /\ id_counter < MaxIds
    /\ LET id  == id_counter
           vec == Append(bucket_ref(subs, t), subscriber(id, priority))
       IN  \E sorted \in std_sort(vec) :
              LET next == gc(with_bucket(subs, t, sorted), gc_enabled)
              IN  /\ subs' = next
                  /\ pc' = after_reentry(next)
                  /\ id_counter' = fetch_add(id_counter)
                  /\ issued' = Append(issued, id)
                  /\ ret' = [op |-> "subscribe", type |-> t, id |-> id,
                             status |-> OK, invoked |-> <<>>]
    /\ UNCHANGED <<gc_enabled, scan, mu, event, pool_vars, life_vars, handle_vars>>

\* the callback calls unsubscribe<EventT>(b, id)
callback_unsubscribe(t, id) ==
    /\ InCallbackOfPublish
    /\ can_lock(mu, Caller)
    /\ LET next == unsubscribe_subs(subs, t, id, gc_enabled)
       IN  /\ subs' = next
           /\ pc' = after_reentry(next)
    /\ ret' = [op |-> "unsubscribe", type |-> t, id |-> id,
               status |-> unsubscribe_status(subs, t, id), invoked |-> <<>>]
    /\ UNCHANGED <<id_counter, gc_enabled, scan, issued, mu, event, pool_vars,
                   life_vars, handle_vars>>

\* the callback calls unsubscribe_event<EventT>(b)
callback_unsubscribe_event(t) ==
    /\ InCallbackOfPublish
    /\ can_lock(mu, Caller)
    /\ IF t \notin DOMAIN subs
       THEN /\ ret' = [op |-> "unsubscribe_event", type |-> t, id |-> NoId,
                       status |-> EVENT_TYPE_NOT_REGISTERED, invoked |-> <<>>]
            /\ UNCHANGED <<subs, pc>>
       ELSE LET next == gc(erase_key(subs, t), gc_enabled)
            IN  /\ subs' = next
                /\ pc' = after_reentry(next)
                /\ ret' = [op |-> "unsubscribe_event", type |-> t, id |-> NoId,
                           status |-> OK, invoked |-> <<>>]
    /\ UNCHANGED <<id_counter, gc_enabled, scan, issued, mu, event, pool_vars,
                   life_vars, handle_vars>>

\* the callback calls unsubscribe_all(b)
callback_unsubscribe_all ==
    /\ InCallbackOfPublish
    /\ can_lock(mu, Caller)
    /\ subs' = clear(subs)
    /\ pc' = after_reentry(clear(subs))
    /\ ret' = [op |-> "unsubscribe_all", type |-> NoType, id |-> NoId,
               status |-> OK, invoked |-> <<>>]
    /\ UNCHANGED <<id_counter, gc_enabled, scan, issued, mu, event, pool_vars,
                   life_vars, handle_vars>>

\* the callback returns r after the bucket was modified under the loop. A
\* false result breaks out of the loop and publish returns OK. Otherwise
\* the loop increments an invalid iterator and compares it with an invalid
\* end, which is undefined: the thread may fault, the loop may end, or it
\* may invoke whatever subscriber, registered or removed, the memory it
\* reaches holds
client_publish_undefined(r) ==
    /\ pc.op = "publish"
    /\ pc.at = "invalid"
    /\ LET invoked == Append(pc.done, [id |-> pc.id, result |-> r])
           returns == /\ ret' = [op |-> "publish", type |-> pc.type, id |-> NoId,
                                 status |-> OK, invoked |-> invoked]
                      /\ mu' = Free
                      /\ pc' = Ready
       IN  IF ~r
           THEN returns
           ELSE \/ returns
                \/ /\ pc' = [pc EXCEPT !.at = "faulted"]
                   /\ UNCHANGED <<mu, ret>>
                \/ /\ Len(invoked) < MaxSubs
                   /\ \E id \in Range(issued) :
                         pc' = [pc EXCEPT !.done = invoked, !.id = id]
                   /\ UNCHANGED <<mu, ret>>
    /\ UNCHANGED <<subs, id_counter, gc_enabled, scan, issued, event, pool_vars,
                   life_vars, handle_vars>>

(* ---- specification ----------------------------------------------------- *)
Next ==
    \/ \E t \in Types, p \in Prios : subscribe(t, p)
    \/ \E t \in Types, id \in Ids : unsubscribe_typed(t, id)
    \/ \E id \in Ids : unsubscribe_any_call(id)
    \/ unsubscribe_any_iter
    \/ \E t \in Types : unsubscribe_event(t)
    \/ unsubscribe_all
    \/ \E t \in Types :
          \E rets \in [IdsOf(bucket_ref(subs, t)) -> BOOLEAN] : publish(t, rets)

Spec == Init /\ [][Next]_vars

\* the same operations in a build with EVENTUS_NO_BUS_GC
SpecNoGC == InitNoGC /\ [][Next]_vars

\* the thread inside the type-erased unsubscribe keeps executing its loop
FairSpec == Spec /\ WF_vars(unsubscribe_any_iter)

\* subscribe followed statement by statement on one thread while other
\* threads subscribe and unsubscribe
ThreadNext ==
    \/ \E t \in Types, p \in Prios : subscribe_lock(t, p)
    \/ subscribe_fetch_add
    \/ subscribe_insert
    \/ \E t \in Types, p \in Prios : subscribe(t, p)
    \/ \E t \in Types, id \in Ids : unsubscribe_typed(t, id)
    \/ \E id \in Ids : unsubscribe_any_call(id)
    \/ unsubscribe_any_iter
    \/ \E t \in Types : unsubscribe_event(t)
    \/ unsubscribe_all

ThreadSpec == Init /\ [][ThreadNext]_vars

\* the subscribers that n calls subscribe<EventT>(b, f, prio[i]) construct
Subscribed(n, prio) == [i \in 1..n |-> subscriber(i - 1, prio[i])]

\* a bus on which 1..MaxSubs subscribers of the first event type were
\* registered, with priorities from P, and nothing else was called yet, in
\* the build with GC (enabled) or with EVENTUS_NO_BUS_GC
PopulatedBus(P, enabled) ==
    /\ \E n \in 1..MaxSubs : \E prio \in [1..n -> P] :
          \E sorted \in std_sort(Subscribed(n, prio)) :
             /\ subs = with_bucket(EmptyMap, 1, sorted)
             /\ id_counter = n
             /\ issued = [i \in 1..n |-> i - 1]
    /\ gc_enabled = enabled
    /\ scan = Idle
    /\ ret = NoCall
    /\ mu = Free
    /\ pc = Ready
    /\ event = 0
    /\ IdlePool
    /\ NoHandles

PopulatedWith(P) == PopulatedBus(P, TRUE)

Populated == PopulatedWith(Prios)

\* the same bus in the build with EVENTUS_NO_BUS_GC
PopulatedNoGC == PopulatedBus(Prios, FALSE)

\* publish_multi followed operand by operand on one thread while other
\* threads unsubscribe
MultiNext ==
    \/ \E n \in 1..MaxEvents : \E events \in [1..n -> Types] : publish_multi_call(events)
    \/ \E rets \in [IdsOf(bucket_ref(subs, next_event)) -> BOOLEAN] : publish_multi_next(rets)
    \/ publish_multi_return
    \/ \E t \in Types, id \in Ids : unsubscribe_typed(t, id)
    \/ unsubscribe_all

MultiSpec == Populated /\ [][MultiNext]_vars

\* one thread publishing its event object again and again
DataNext ==
    \/ \E v \in 0..MaxData : assign_event(v)
    \/ \E t \in Types :
          \E rets \in [IdsOf(bucket_ref(subs, t)) -> BOOLEAN] :
             \E deltas \in [IdsOf(bucket_ref(subs, t)) -> 0..MaxDelta] :
                publish_event(t, rets, deltas)

DataSpec == Populated /\ [][DataNext]_vars

\* client threads publishing through the pool, and the pool's workers
PoolNext ==
    \/ \E t \in Types : publish_threaded(t)
    \/ \E t \in Types : publish_async(t)
    \/ \E w \in Workers : worker_take(w)
    \/ \E w \in Workers : worker_run(w)
    \/ \E w \in Workers, r \in BOOLEAN : worker_return(w, r)

PoolSpec == Populated /\ [][PoolNext]_vars

\* one thread of the pool: wait for a task and take it, start it, return
\* from the callback it is in
worker_step(w) ==
    \/ worker_take(w)
    \/ worker_run(w)
    \/ \E r \in BOOLEAN : worker_return(w, r)

\* the same calls on a bus whose subscribers were all registered with
\* priority 0
LevelPoolSpec == PopulatedWith({0}) /\ [][PoolNext]_vars

\* every worker thread keeps running: a worker that can take a task, start
\* the task it took or return from a callback eventually does
FairPoolSpec == LevelPoolSpec /\ \A w \in Workers : WF_vars(worker_step(w))

\* one step of worker w's thread; a spurious wake-up and a fault are not
\* steps the thread is bound to take
worker_loop(w) ==
    \/ worker_test(w)
    \/ worker_lock(w)
    \/ worker_pred(w)
    \/ worker_wait(w)
    \/ worker_check(w)
    \/ worker_done(w)

\* the thread inside ~thread_pool goes on once it has entered it
dtor_step ==
    \/ dtor_notify
    \/ dtor_members
    \/ dtor_request_stop
    \/ dtor_join

\* threads enqueueing tasks, the workers, and the destruction of the pool
LifeNext ==
    \/ enqueue_push
    \/ enqueue_notify
    \/ \E w \in Workers : worker_test(w)
    \/ \E w \in Workers : worker_lock(w)
    \/ \E w \in Workers : worker_pred(w)
    \/ \E w \in Workers : worker_wait(w)
    \/ \E w \in Workers : worker_spurious(w)
    \/ \E w \in Workers : worker_check(w)
    \/ \E w \in Workers : worker_done(w)
    \/ \E w \in Workers : worker_fault(w)
    \/ dtor_stop
    \/ dtor_notify
    \/ dtor_members
    \/ dtor_request_stop
    \/ dtor_join

LifeSpec == LifeInit /\ [][LifeNext]_vars

\* every thread keeps executing: a worker that can take its next step, an
\* enqueuer that has pushed and the thread inside the destructor eventually
\* do. Nothing obliges the owner to destroy the pool.
FairLifeSpec ==
    /\ LifeSpec
    /\ \A w \in Workers : WF_vars(worker_loop(w))
    /\ WF_vars(enqueue_notify)
    /\ WF_vars(dtor_step)

\* once and publish called on a bus that holds subscribers registered by
\* subscribe
OnceNext ==
    \/ \E t \in Types : once(t)
    \/ \E t \in Types :
          \E rets \in [IdsOf(bucket_ref(subs, t)) -> BOOLEAN] : publish_once(t, rets)

OnceSpec == Populated /\ [][OnceNext]_vars

\* owned_id objects made, used, moved and destroyed, with publishes and
\* manual unsubscribes of the raw ids they wrap in between
OwnedNext ==
    \/ \E h \in Handles, t \in Types : owned_scoped(h, t)
    \/ \E h \in Handles : owned_unsubscribe(h)
    \/ \E h \in Handles : owned_release(h)
    \/ \E h, g \in Handles : owned_move(h, g)
    \/ \E h \in Handles : owned_destroy(h)
    \/ \E h \in Handles :
          owned[h].state # "none" /\ unsubscribe_typed(owned[h].type, owned[h].id)
    \/ \E t \in Types :
          \E rets \in [IdsOf(bucket_ref(subs, t)) -> BOOLEAN] : publish(t, rets)

OwnedSpec == Init /\ [][OwnedNext]_vars

\* subscribe_multi followed operand by operand on one thread while
\* registered subscribers are unsubscribed from their type
SubscribeMultiNext ==
    \/ \E types \in TypeLists, p \in Prios : subscribe_multi_call(types, p)
    \/ subscribe_multi_next
    \/ subscribe_multi_return
    \/ \E t \in DOMAIN subs : \E id \in IdsOf(subs[t]) : unsubscribe_typed(t, id)

SubscribeMultiSpec == Populated /\ [][SubscribeMultiNext]_vars

\* unsubscribes, publishes and publish_async on a populated bus in a build
\* with EVENTUS_NO_BUS_GC
NoGCNext ==
    \/ \E t \in DOMAIN subs : \E id \in IdsOf(subs[t]) : unsubscribe_typed(t, id)
    \/ \E id \in Ids : unsubscribe_any_call(id)
    \/ unsubscribe_any_iter
    \/ \E t \in Types : unsubscribe_event(t)
    \/ \E t \in Types :
          \E rets \in [IdsOf(bucket_ref(subs, t)) -> BOOLEAN] : publish(t, rets)
    \/ \E t \in Types : publish_async(t)

NoGCPoolSpec == PopulatedNoGC /\ [][NoGCNext]_vars

\* publish_async calls and the workers running their tasks while other
\* threads change the registry
RefNext ==
    \/ \E t \in Types : publish_async(t)
    \/ \E w \in Workers : worker_take(w)
    \/ \E w \in Workers : worker_run(w)
    \/ \E w \in Workers, r \in BOOLEAN : worker_return(w, r)
    \/ \E t \in Types, p \in Prios : subscribe(t, p)
    \/ \E t \in DOMAIN subs : \E id \in IdsOf(subs[t]) : unsubscribe_typed(t, id)
    \/ \E t \in Types : unsubscribe_event(t)
    \/ unsubscribe_all

RefSpec == Populated /\ [][RefNext]_vars

\* the event types of the tasks that are queued or taken and not yet run
PendingTypes ==
    {tasks[k].type : k \in 1..Len(tasks)}
       \cup {workers[w].task.type : w \in {v \in Workers : workers[v].state = "taken"}}

\* publish_threaded calls and the workers running the deferred publishes;
\* between a call and the run of its task other threads subscribe to the
\* type published and unsubscribe from it
DeferredNext ==
    \/ \E t \in Types : publish_threaded(t)
    \/ \E w \in Workers : worker_take(w)
    \/ \E w \in Workers : worker_run(w)
    \/ \E w \in Workers, r \in BOOLEAN : worker_return(w, r)
    \/ \E t \in PendingTypes, p \in Prios : subscribe(t, p)
    \/ \E t \in PendingTypes :
          \E id \in IdsOf(bucket_ref(subs, t)) : unsubscribe_typed(t, id)

DeferredSpec == PopulatedWith({0}) /\ [][DeferredNext]_vars

\* the lists of events a publish_threaded_multi or publish_async_multi call
\* is given
EventLists == UNION {[1..n -> Types] : n \in 1..MaxEvents}

\* publish_async, publish_threaded_multi and publish_async_multi called on
\* a bus in a build with EVENTUS_NO_BUS_GC while subscribers are removed
PoolMultiNext ==
    \/ \E t \in Types : publish_async(t)
    \/ \E events \in EventLists : pool_multi_call("threaded", events)
    \/ \E events \in EventLists : pool_multi_call("async", events)
    \/ publish_threaded_multi_next
    \/ publish_async_multi_next
    \/ pool_multi_return
    \/ \E t \in DOMAIN subs : \E id \in IdsOf(subs[t]) : unsubscribe_typed(t, id)

PoolMultiSpec == PopulatedNoGC /\ [][PoolMultiNext]_vars

\* the calls that can fail, made on a populated bus of either build:
\* unsubscribes of any type and id, unsubscribe_event, publish, publish_async
StatusNext ==
    \/ \E t \in Types, id \in Ids : unsubscribe_typed(t, id)
    \/ \E id \in Ids : unsubscribe_any_call(id)
    \/ unsubscribe_any_iter
    \/ \E t \in Types : unsubscribe_event(t)
    \/ \E t \in Types :
          \E rets \in [IdsOf(bucket_ref(subs, t)) -> BOOLEAN] : publish(t, rets)
    \/ \E t \in Types : publish_async(t)

StatusSpec == (Populated \/ PopulatedNoGC) /\ [][StatusNext]_vars

\* one step of the followed thread inside publish, publish_threaded or
\* publish_async
client_step ==
    \/ client_publish_lock
    \/ \E r \in BOOLEAN : client_publish_return(r)
    \/ client_threaded_push
    \/ client_async_lock
    \/ client_async_push
    \/ client_notify
    \/ client_pool_return

\* one step of worker w's thread, from the loop test through the task it
\* runs and back
worker_thread(w) ==
    \/ worker_test(w)
    \/ worker_lock(w)
    \/ worker_pred(w)
    \/ worker_wait(w)
    \/ worker_check(w)
    \/ worker_call(w)
    \/ worker_run(w)
    \/ \E r \in BOOLEAN : worker_return(w, r)
    \/ worker_back(w)

\* the followed thread publishing in the three ways, another client thread
\* inside a synchronous publish, the workers, and unsubscribes by further
\* threads
LockNext ==
    \/ \E f \in {"publish_threaded", "publish_async"}, t \in Types : client_call(f, t)
    \/ client_threaded_push
    \/ client_async_lock
    \/ client_async_push
    \/ client_notify
    \/ client_pool_return
    \/ other_publish_lock
    \/ other_publish_return
    \/ \E w \in Workers : worker_test(w)
    \/ \E w \in Workers : worker_lock(w)
    \/ \E w \in Workers : worker_pred(w)
    \/ \E w \in Workers : worker_wait(w)
    \/ \E w \in Workers : worker_spurious(w)
    \/ \E w \in Workers : worker_check(w)
    \/ \E w \in Workers : worker_call(w)
    \/ \E w \in Workers : worker_run(w)
    \/ \E w \in Workers, r \in BOOLEAN : worker_return(w, r)
    \/ \E w \in Workers : worker_back(w)

LockSpec == PopulatedWith({0}) /\ [][LockNext]_vars

\* the followed thread publishing in the three ways, another client thread
\* inside a synchronous publish, and the workers taking and running tasks
DispatchNext ==
    \/ \E f \in {"publish_threaded", "publish_async"}, t \in Types : client_call(f, t)
    \/ client_threaded_push
    \/ client_async_lock
    \/ client_async_push
    \/ client_notify
    \/ client_pool_return
    \/ other_publish_lock
    \/ other_publish_return
    \/ \E w \in Workers : worker_take(w)
    \/ \E w \in Workers : worker_run(w)
    \/ \E w \in Workers, r \in BOOLEAN : worker_return(w, r)

DispatchSpec == PopulatedWith({0}) /\ [][DispatchNext]_vars
\* LockSpec with the scheduling the locks rely on: a worker that can take a
\* step takes one (it holds queue_mu only between statements of its own that
\* wait for nothing), and a thread blocked in enqueue on a queue_mu that is
\* released again and again gets it
FairLockSpec ==
    /\ LockSpec
    /\ \A w \in Workers : WF_vars(worker_thread(w))
    /\ SF_vars(client_async_push)

\* the followed thread inside publish, statement by statement, with
\* callbacks that call subscribe, unsubscribe, unsubscribe_event and
\* unsubscribe_all on the bus they are invoked from
ReentrantNext ==
    \/ \E t \in Types : client_call("publish", t)
    \/ client_publish_lock
    \/ \E r \in BOOLEAN : client_publish_return(r)
    \/ \E t \in Types, p \in Prios : callback_subscribe(t, p)
    \/ \E t \in Types, id \in Ids : callback_unsubscribe(t, id)
    \/ \E t \in Types : callback_unsubscribe_event(t)
    \/ callback_unsubscribe_all
    \/ \E r \in BOOLEAN : client_publish_undefined(r)

ReentrantSpec == Populated /\ [][ReentrantNext]_vars


TypeOK ==
    /\ DOMAIN subs \subseteq Types
    /\ \A t \in DOMAIN subs : \A i \in 1..Len(subs[t]) :
          subs[t][i].id \in Ids /\ subs[t][i].priority \in Prios
    /\ id_counter \in 0..MaxIds
    /\ gc_enabled \in BOOLEAN
    /\ scan.iters \in 0..MaxSpin
(* ======================================================================= *)
(* Properties                                                              *)
(* ======================================================================= *)
\* the priority a bucket records for subscriber id
PriorityIn(vec, id) == (CHOOSE e \in Range(vec) : e.id = id).priority

\* the bucket the last publish dispatched over (publish leaves subs unchanged)
PublishedBucket == bucket_ref(subs, ret.type)

PublishedOK == ret.op = "publish" /\ ret.status = OK

\* C1: every bucket of the registry is ordered by non-increasing priority
\* after any sequence of subscribe and unsubscribe calls, and a synchronous
\* publish invokes the subscribers of its type in non-increasing priority
\* order, whatever the order in which they were subscribed.
C1_PriorityOrder ==
    /\ \A t \in DOMAIN subs : \A i \in 1..(Len(subs[t]) - 1) :
          subs[t][i].priority >= subs[t][i + 1].priority
    /\ PublishedOK =>
          \A i \in 1..(Len(ret.invoked) - 1) :
             PriorityIn(PublishedBucket, ret.invoked[i].id)
                >= PriorityIn(PublishedBucket, ret.invoked[i + 1].id)

\* C1 witness: a publish invoked a later-subscribed, higher-priority
\* subscriber before an earlier-subscribed one of lower priority.
C1_Witness ==
    /\ PublishedOK
    /\ Len(ret.invoked) >= 2
    /\ ret.invoked[1].id > ret.invoked[2].id
    /\ PriorityIn(PublishedBucket, ret.invoked[1].id)
          > PriorityIn(PublishedBucket, ret.invoked[2].id)

\* C2 (as claimed): two subscribers of one type with equal priority are
\* always invoked by publish in the order in which they were subscribed
\* (ids grow in subscription order).
C2_StableTies ==
    PublishedOK =>
       \A i, j \in 1..Len(ret.invoked) :
          (/\ i < j
           /\ PriorityIn(PublishedBucket, ret.invoked[i].id)
                 = PriorityIn(PublishedBucket, ret.invoked[j].id))
             => ret.invoked[i].id < ret.invoked[j].id

\* C3: in a synchronous publish the invoked subscribers are a prefix of the
\* bucket starting at its first (highest-priority) subscriber, each invoked
\* once; every subscriber before the last invoked one returned true; when a
\* subscriber returns false it is the last one invoked, so no subscriber of
\* strictly lower priority is invoked; when none returns false all are invoked.
C3_ShortCircuit ==
    PublishedOK =>
       LET vec == PublishedBucket
           inv == ret.invoked
       IN  /\ Len(inv) >= 1
           /\ Len(inv) <= Len(vec)
           /\ \A i \in 1..Len(inv) : inv[i].id = vec[i].id
           /\ \A i \in 1..(Len(inv) - 1) : inv[i].result
           /\ inv[Len(inv)].result => Len(inv) = Len(vec)
           /\ \A i \in 1..Len(inv) : ~inv[i].result =>
                 \A k \in 1..Len(inv) :
                    PriorityIn(vec, inv[k].id) >= PriorityIn(vec, inv[i].id)

\* C3 witness: a publish stopped by a false result at the second subscriber
\* while a subscriber of strictly lower priority stayed uninvoked.
C3_Witness ==
    /\ PublishedOK
    /\ Len(ret.invoked) = 2
    /\ ~ret.invoked[2].result
    /\ Len(PublishedBucket) = 3
    /\ PublishedBucket[3].priority < PublishedBucket[2].priority

\* C4: publish returns EVENT_TYPE_NOT_REGISTERED exactly when the type has
\* no bucket, and then invokes nothing; with at least one subscriber in the
\* bucket it returns OK, also when a subscriber stopped the propagation.
C4_PublishStatus ==
    ret.op = "publish" =>
       /\ (ret.type \notin DOMAIN subs) <=> (ret.status = EVENT_TYPE_NOT_REGISTERED)
       /\ ret.status = EVENT_TYPE_NOT_REGISTERED => ret.invoked = <<>>
       /\ (ret.type \in DOMAIN subs /\ subs[ret.type] # <<>>) => ret.status = OK
       /\ (ret.invoked # <<>>) => ret.status = OK

\* C4 witness: a publish that was stopped early and returned OK.
C4_Witness ==
    /\ PublishedOK
    /\ ~ret.invoked[Len(ret.invoked)].result
    /\ Len(ret.invoked) < Len(PublishedBucket)
\* every subscriber id registered under any type
RegisteredIds == UNION {IdsOf(subs[t]) : t \in DOMAIN subs}

\* a publish invokes only subscribers that are in the bucket of its type
PublishInvokesRegistered ==
    ret.op = "publish" =>
       \A i \in 1..Len(ret.invoked) : ret.invoked[i].id \in IdsOf(PublishedBucket)

\* registered ids were all allocated, so an id removed once is never
\* registered again by a later subscribe (which takes id_counter)
RegisteredAllocated == \A id \in RegisteredIds : id < id_counter

\* the effect of a step of unsubscribe<EventT>(b, id) that returns OK
C5_Step ==
    (ret'.op = "unsubscribe" /\ ret'.status = OK) =>
       LET t  == ret'.type
           id == ret'.id
       IN  /\ t \in DOMAIN subs
           /\ id \in IdsOf(subs[t])
           /\ bucket_ref(subs', t) = SelectSeq(subs[t], LAMBDA e : e.id # id)
           /\ id \notin UNION {IdsOf(subs'[u]) : u \in DOMAIN subs'}
           /\ \A u \in Types \ {t} :
                 /\ (u \in DOMAIN subs') <=> (u \in DOMAIN subs)
                 /\ bucket_ref(subs', u) = bucket_ref(subs, u)

\* C5: unsubscribe(type, id) returning OK removes exactly the subscriber
\* with that id from that type's bucket and keeps every other subscriber of
\* that type and of every other type registered in the same order; the id
\* is never registered again and publish invokes registered subscribers
\* only, so no following publish invokes it.
C5_UnsubscribeExact ==
    /\ [](PublishInvokesRegistered /\ RegisteredAllocated)
    /\ [][C5_Step]_vars

\* C5 witness: the subscriber subscribed second was removed from between
\* two others of its bucket, which stay registered.
C5_Witness ==
    /\ ret.op = "unsubscribe" /\ ret.status = OK /\ ret.id = 1
    /\ ret.type \in DOMAIN subs
    /\ IdsOf(subs[ret.type]) = {0, 2}

\* the status the contract assigns to unsubscribe(type, id) in registry s
C6_Expected(s, t, id) ==
    IF t \notin DOMAIN s THEN EVENT_TYPE_NOT_REGISTERED
    ELSE IF id \notin IdsOf(s[t]) THEN NO_SUBSCRIBER_WITH_ID
    ELSE OK

\* C6 (as claimed): unsubscribe(type, id) returns EVENT_TYPE_NOT_REGISTERED
\* when the type has no bucket, NO_SUBSCRIBER_WITH_ID when the bucket holds
\* no subscriber with that id, and OK otherwise.
C6_UnsubscribeStatus ==
    [][ret'.op = "unsubscribe" =>
          ret'.status = C6_Expected(subs, ret'.type, ret'.id)]_vars

\* C7 (as claimed): a type-erased unsubscribe(id) of an id registered under
\* any type removes it and returns OK, whichever bucket holds it; it returns
\* NO_SUBSCRIBER_WITH_ID only for an id that no bucket holds, and then leaves
\* the registry unchanged.
C7_UnsubscribeAnyResult ==
    /\ \A id \in Ids :
          (scan.active /\ scan.id = id /\ id \in RegisteredIds)
             ~> (/\ ~scan.active
                 /\ ret.op = "unsubscribe_any" /\ ret.id = id /\ ret.status = OK
                 /\ id \notin RegisteredIds)
    /\ [][(ret'.op = "unsubscribe_any" /\ ret'.status = NO_SUBSCRIBER_WITH_ID)
             => (ret'.id \notin RegisteredIds /\ subs' = subs)]_vars

\* C8 (as claimed): the type-erased unsubscribe(id) terminates: a call that
\* entered its bucket loop eventually returns a status.
C8_UnsubscribeAnyTerminates ==
    (ret.op = "unsubscribe_any" /\ ret.status = RUNNING)
       ~> (ret.op = "unsubscribe_any" /\ ret.status # RUNNING)

\* the effect of a step of unsubscribe_event, and of a publish right after it
C9_Step ==
    /\ ret'.op = "unsubscribe_event" =>
          LET t == ret'.type
          IN  /\ t \notin DOMAIN subs =>
                    ret'.status = EVENT_TYPE_NOT_REGISTERED /\ subs' = subs
              /\ t \in DOMAIN subs =>
                    /\ ret'.status = OK
                    /\ t \notin DOMAIN subs'
                    /\ \A u \in Types \ {t} :
                          /\ (u \in DOMAIN subs') <=> (u \in DOMAIN subs)
                          /\ bucket_ref(subs', u) = bucket_ref(subs, u)
    /\ (/\ ret.op = "unsubscribe_event" /\ ret.status = OK
        /\ ret'.op = "publish" /\ ret'.type = ret.type)
          => (ret'.status = EVENT_TYPE_NOT_REGISTERED /\ ret'.invoked = <<>>)

\* C9: unsubscribe_event(type) returns EVENT_TYPE_NOT_REGISTERED and changes
\* nothing when the type has no bucket; otherwise it returns OK and removes
\* the whole bucket, so a following publish of the type returns
\* EVENT_TYPE_NOT_REGISTERED, and the buckets of all other types are unchanged.
C9_UnsubscribeEvent == [][C9_Step]_vars

\* C9 witness: a bucket was dropped while another type kept its subscribers.
C9_Witness ==
    /\ ret.op = "unsubscribe_event" /\ ret.status = OK
    /\ \E u \in DOMAIN subs : u # ret.type /\ Len(subs[u]) >= 2

\* the effect of a step of unsubscribe_all, and of a publish on the empty registry
C10_Step ==
    /\ ret'.op = "unsubscribe_all" => (ret'.status = OK /\ DOMAIN subs' = {})
    /\ (DOMAIN subs = {} /\ ret'.op = "publish")
          => (ret'.status = EVENT_TYPE_NOT_REGISTERED /\ ret'.invoked = <<>>)

\* C10: unsubscribe_all can be called in every registry state, the empty one
\* included, always returns OK and leaves no bucket: a publish of any type
\* then returns EVENT_TYPE_NOT_REGISTERED and invokes nothing, and since the
\* removed ids are never registered again no later publish invokes them.
C10_UnsubscribeAll ==
    /\ [](~scan.active => ENABLED unsubscribe_all)
    /\ [](PublishInvokesRegistered /\ RegisteredAllocated
          /\ (ret.op = "unsubscribe_all" => (ret.status = OK /\ DOMAIN subs = {})))
    /\ [][C10_Step]_vars

\* C10 witness: unsubscribe_all returned after all ids had been handed out
\* to subscribers, and the registry is empty.
C10_Witness ==
    /\ ret.op = "unsubscribe_all" /\ ret.status = OK
    /\ id_counter = MaxIds
    /\ subs = EmptyMap
\* C11: in the build with GC no registered type has an empty bucket in any
\* state between operations: an unsubscribe that removes the last subscriber
\* of a type unregisters the type, a publish or unsubscribe_event of an
\* unregistered type returns EVENT_TYPE_NOT_REGISTERED, and publish never
\* returns NO_SUBSCRIBERS_FOR_EVENT_TYPE.
C11_NoEmptyBucket ==
    /\ [](gc_enabled => \A t \in DOMAIN subs : subs[t] # <<>>)
    /\ [](gc_enabled /\ ret.op = "publish"
             => ret.status # NO_SUBSCRIBERS_FOR_EVENT_TYPE)
    /\ [][gc_enabled =>
            /\ (ret'.op \in {"unsubscribe", "unsubscribe_any"} /\ ret'.status = OK)
                  => \A t \in DOMAIN subs :
                        IdsOf(subs[t]) = {ret'.id} => t \notin DOMAIN subs'
            /\ (/\ ret'.op \in {"publish", "unsubscribe_event"}
                /\ ret'.type \notin DOMAIN subs)
                  => ret'.status = EVENT_TYPE_NOT_REGISTERED]_vars

\* C11 witness: the last subscriber of a type was removed by id while the
\* other type keeps a subscriber, and the type is no longer registered.
C11_Witness ==
    /\ gc_enabled
    /\ ret.op = "unsubscribe" /\ ret.status = OK
    /\ ret.type \notin DOMAIN subs
    /\ DOMAIN subs # {}
\* C12: the ids subscribe hands out are strictly increasing in the order of
\* their allocation, whichever thread allocates them and whatever was removed
\* in between: every id a subscribe returns is the most recently allocated
\* one, differs from every id allocated before and from every registered id,
\* no id is registered twice (in any bucket of any type), and no call ever
\* lowers id_counter.
C12_UniqueIds ==
    /\ [](\A i, j \in 1..Len(issued) : i < j => issued[i] < issued[j])
    /\ [](\A id \in RegisteredIds : \E i \in 1..Len(issued) : issued[i] = id)
    /\ [](\A t, u \in DOMAIN subs : \A i \in 1..Len(subs[t]), j \in 1..Len(subs[u]) :
             subs[t][i].id = subs[u][j].id => (t = u /\ i = j))
    /\ [][(ret'.op = "subscribe" /\ ret' # ret) =>
             /\ ret'.id = issued'[Len(issued')]
             /\ ret'.id \notin RegisteredIds
             /\ \A i \in 1..(Len(issued') - 1) : issued'[i] < ret'.id]_vars
    /\ [][id_counter' >= id_counter]_vars

\* C12 witness: the followed thread is inside subscribe and has been given
\* an id after another thread's subscriber was registered and removed again
\* by unsubscribe_all.
C12_Witness ==
    /\ pc.op = "subscribe"
    /\ pc.id >= 1
    /\ ret.op = "unsubscribe_all"
    /\ RegisteredIds = {}

\* the shape of one complete synchronous publish of type t on registry s
CompletePublish(s, t, r) ==
    /\ r.op = "publish"
    /\ r.type = t
    /\ (t \notin DOMAIN s) <=> (r.status = EVENT_TYPE_NOT_REGISTERED)
    /\ (t \notin DOMAIN s) => r.invoked = <<>>
    /\ (t \in DOMAIN s /\ s[t] # <<>>) =>
          /\ r.status = OK
          /\ Len(r.invoked) \in 1..Len(s[t])
          /\ \A i \in 1..Len(r.invoked) : r.invoked[i].id = s[t][i].id
          /\ \A i \in 1..(Len(r.invoked) - 1) : r.invoked[i].result
          /\ r.invoked[Len(r.invoked)].result => Len(r.invoked) = Len(s[t])

\* C13: publish_multi publishes its k-th argument as its k-th publish, each
\* a complete synchronous publish that leaves the registry as it was, and
\* returns after the last argument with the status of that last publish,
\* whatever the earlier ones returned.
C13_PublishMulti ==
    /\ [][(pc.op = "publish_multi" /\ pc'.op = "publish_multi" /\ pc' # pc) =>
             /\ CompletePublish(subs, pc.events[Len(pc.done) + 1], ret')
             /\ pc'.done = Append(pc.done, ret'.status)
             /\ pc'.events = pc.events
             /\ subs' = subs]_vars
    /\ [][(pc.op = "publish_multi" /\ pc'.op = "ready") =>
             /\ Len(pc.done) = Len(pc.events)
             /\ ret'.op = "publish_multi"
             /\ ret'.status = pc.done[Len(pc.done)]]_vars

\* C13 witness: a publish_multi of an unregistered type followed by a
\* registered one has returned OK.
C13_Witness ==
    /\ ret.op = "publish_multi"
    /\ ret.status = OK
    /\ Len(ret.invoked) = 2
    /\ ret.invoked[1] = EVENT_TYPE_NOT_REGISTERED

\* the followed thread is inside publish_multi, after one event and before the next
BetweenEvents ==
    /\ pc.op = "publish_multi"
    /\ 0 < Len(pc.done)
    /\ Len(pc.done) < Len(pc.events)

\* C19: between the publish of one event of a publish_multi call and the
\* publish of the next, no step changes the registry.
C19_PublishMultiHoldsLock == [][BetweenEvents => subs' = subs]_vars
\* C14: the first subscriber a publish invokes finds the value the caller
\* passed, which is the caller's object as it was before any earlier publish
\* (no call changes that object); every later subscriber of the same call
\* finds the value as the subscribers invoked before it in that call left it.
C14_OneInstance ==
    /\ [](ret.op = "publish" =>
             \A i \in 1..Len(ret.invoked) :
                ret.invoked[i].seen =
                   IF i = 1 THEN ret.data
                   ELSE ret.invoked[i - 1].seen + ret.invoked[i - 1].delta)
    /\ [][(ret'.op = "publish" /\ ret' # ret) =>
             /\ ret'.data = event
             /\ event' = event]_vars

\* C14 witness: in one publish the first subscriber changed the event and
\* the second one was handed the changed value; the caller's object still
\* holds the value that was passed.
C14_Witness ==
    /\ ret.op = "publish"
    /\ Len(ret.invoked) >= 2
    /\ ret.invoked[1].delta > 0
    /\ ret.invoked[2].seen = ret.data + ret.invoked[1].delta
    /\ event = ret.data
\* positions of the queue that hold a task of pool call c
QueuedOf(c) == {k \in 1..Len(tasks) : tasks[k].call = c}

\* workers that hold a task of pool call c
HoldersOf(c) == {w \in Workers : workers[w].task.call = c}

\* the bucket pool call c is about
BucketOf(c) == bucket_ref(subs, calls[c].type)

Returned == {ReturnedTrue, ReturnedFalse}

\* no subscriber is invoked a second time by the same pool call
InvokedAtMostOnce ==
    \A c \in 1..MaxCalls : \A id \in 0..(MaxSubs - 1) :
       /\ (outcome'[c][id] = Invoking /\ outcome[c][id] # Invoking)
             => outcome[c][id] = NotInvoked
       /\ outcome[c][id] \in Returned => outcome'[c][id] = outcome[c][id]

\* C15: a publish_threaded call puts exactly one task into the queue and
\* returns OK; at any time at most one task of the call exists, so one worker
\* runs it. That worker invokes a subscriber only after every subscriber
\* before it in the bucket, and every subscriber of higher priority, has
\* returned true; no two subscribers of the call are running at once, none
\* is invoked twice, and when the task is gone the subscribers not invoked
\* are exactly those behind one that returned false.
C15_PublishThreaded ==
    /\ [][(ret'.op = "publish_threaded" /\ calls' # calls) =>
             /\ Len(tasks') = Len(tasks) + 1
             /\ tasks'[Len(tasks')].call = Len(calls')
             /\ enq' = enq + 1
             /\ ret'.status = OK]_vars
    /\ [](\A c \in 1..Len(calls) : calls[c].kind = "threaded" =>
            LET vec == BucketOf(c)
            IN  /\ Cardinality(QueuedOf(c)) + Cardinality(HoldersOf(c)) <= 1
                /\ \A i \in 1..Len(vec) : outcome[c][vec[i].id] # NotInvoked =>
                      \A j \in 1..(i - 1) : outcome[c][vec[j].id] = ReturnedTrue
                /\ \A a, b \in Range(vec) :
                      (a.priority > b.priority /\ outcome[c][b.id] # NotInvoked)
                         => outcome[c][a.id] = ReturnedTrue
                /\ Cardinality({id \in IdsOf(vec) : outcome[c][id] = Invoking}) <= 1
                /\ \A id \in IdsOf(vec) : outcome[c][id] = Invoking =>
                      \E w \in HoldersOf(c) :
                         /\ workers[w].state = "invoking"
                         /\ vec[workers[w].pos].id = id
                /\ (QueuedOf(c) = {} /\ HoldersOf(c) = {}) =>
                      \A i \in 1..Len(vec) :
                         /\ outcome[c][vec[i].id] # Invoking
                         /\ outcome[c][vec[i].id] = NotInvoked =>
                               \E j \in 1..(i - 1) : outcome[c][vec[j].id] = ReturnedFalse)
    /\ [][InvokedAtMostOnce]_vars

\* C15 witness: a worker running the task of a publish_threaded call is
\* invoking the second subscriber of the bucket after the first returned true.
C15_Witness ==
    \E w \in Workers :
       /\ workers[w].state = "invoking"
       /\ workers[w].task.kind = "threaded"
       /\ workers[w].pos = 2
       /\ outcome[workers[w].task.call][subs[workers[w].task.type][1].id] = ReturnedTrue

\* the publish_async calls that returned OK
AsyncCalls == {c \in 1..Len(calls) : calls[c].kind = "async" /\ calls[c].status = OK}

\* every subscriber of every publish_async call made so far has been invoked
\* and has returned
AllInvoked ==
    \A c \in AsyncCalls : \A id \in IdsOf(BucketOf(c)) : outcome[c][id] \in Returned

\* C16: a publish_async call on a type with n subscribers adds n tasks to
\* the queue, one for each subscriber; on a bus whose registry stays as it is
\* and whose pool keeps running, every subscriber of the type is eventually
\* invoked and returns, none is invoked twice, whatever the other subscribers
\* return. (A result, once recorded, stays; so "again and again all
\* subscribers of all calls made so far have returned" says that each
\* subscriber of each call eventually returns.)
C16_PublishAsync ==
    /\ [][(ret'.op = "publish_async" /\ calls' # calls /\ ret'.status = OK) =>
             LET vec == bucket_ref(subs, ret'.type)
                 new == {k \in 1..Len(tasks') : k > Len(tasks)}
             IN  /\ Len(vec) >= 1
                 /\ Len(tasks') = Len(tasks) + Len(vec)
                 /\ \A k \in new : tasks'[k].call = Len(calls')
                 /\ \A i \in 1..Len(vec) :
                       Cardinality({k \in new : tasks'[k].sub = i}) = 1]_vars
    /\ [][InvokedAtMostOnce]_vars
    /\ []<>AllInvoked

\* C16 witness: of the two subscribers of a publish_async call the first
\* has returned false and the second has returned true.
C16_Witness ==
    \E c \in AsyncCalls :
       /\ Len(BucketOf(c)) >= 2
       /\ outcome[c][BucketOf(c)[1].id] = ReturnedFalse
       /\ outcome[c][BucketOf(c)[2].id] = ReturnedTrue

\* the lambdas of call c that hold a copy of shared_data, queued or held by a worker
Referrers(c) ==
    Cardinality({k \in QueuedOf(c) : tasks[k].data = "shared"})
       + Cardinality({w \in HoldersOf(c) : workers[w].task.data = "shared"})

\* C17: for a publish_async call on more than one subscriber every task of
\* the call refers to the call's one shared event, whose use count equals
\* the number of tasks of the call that are still queued or held by a worker
\* (so it is alive whenever one of them runs and released when none is
\* left); for a call on exactly one subscriber the single task owns the
\* event and no shared event exists.
C17_SharedEvent ==
    \A c \in AsyncCalls :
       /\ shared[c] = Referrers(c)
       /\ \A w \in HoldersOf(c) :
             workers[w].task.data = "shared" => shared[c] >= 1
       /\ Len(BucketOf(c)) > 1 =>
             /\ \A k \in QueuedOf(c) : tasks[k].data = "shared"
             /\ \A w \in HoldersOf(c) : workers[w].task.data = "shared"
       /\ Len(BucketOf(c)) = 1 =>
             /\ shared[c] = 0
             /\ \A k \in QueuedOf(c) : tasks[k].data = "owned"
             /\ \A w \in HoldersOf(c) : workers[w].task.data = "owned"

\* C17 witness: a worker is invoking a subscriber with the shared event of
\* a call whose other tasks have all finished: it holds the last reference.
C17_Witness ==
    \E w \in Workers :
       /\ workers[w].state = "invoking"
       /\ workers[w].task.data = "shared"
       /\ shared[workers[w].task.call] = 1

\* C18: a worker that is invoking a subscriber through an element of a
\* bucket holds the bus lock.
C18_RegistryUnderLock ==
    \A w \in Workers : workers[w].state = "invoking" => mu = Tid(w)

\* the serial numbers of the queue, front first
QueuedSerials == [k \in 1..Len(tasks) |-> tasks[k].serial]

\* the workers that hold a task
Busy == {w \in Workers : workers[w].state # "waiting"}

\* C20: the queue holds the tasks in the order of their enqueueing; the k-th
\* task a worker takes from the queue is the k-th task that was enqueued (so
\* tasks leave the queue in enqueue order and none is taken a second time);
\* no task is held by two workers or held and queued at once; a worker takes
\* a task only when it holds none; and the tasks taken and not finished are
\* those held by the busy workers, at most one per worker.
C20_FifoQueue ==
    /\ [](\A i, j \in 1..Len(tasks) : i < j => tasks[i].serial < tasks[j].serial)
    /\ [](\A w, v \in Busy : w # v => workers[w].task.serial # workers[v].task.serial)
    /\ [](\A w \in Busy : \A k \in 1..Len(tasks) :
             tasks[k].serial > workers[w].task.serial)
    /\ [](Cardinality(Busy) <= MaxWorkers /\ Cardinality(Busy) <= enq - Len(tasks))
    /\ [][\A w \in Workers :
             workers'[w].task.serial # workers[w].task.serial =>
                \/ /\ workers[w].state = "waiting"
                   /\ workers'[w].state = "taken"
                   /\ workers'[w].task.serial = (enq - Len(tasks)) + 1
                   /\ QueuedSerials = <<workers'[w].task.serial>> \o QueuedSerials'
                \/ /\ workers[w].state # "waiting"
                   /\ workers'[w] = Waiting]_vars

\* C20 witness: two workers are running the first and the second task of
\* the queue at the same time.
C20_Witness ==
    \E w, v \in Workers :
       /\ workers[w].state = "invoking" /\ workers[w].task.serial = 1
       /\ workers[v].state = "invoking" /\ workers[v].task.serial = 2

(* ---- the pool's life ----------------------------------------------------- *)
\* every task handed to enqueue so far has run to completion
AllRan == ran = 1..enq

\* C21: while ~thread_pool has not been entered, every task handed to
\* enqueue is eventually taken by a worker and run to completion, whatever
\* the interleaving of the enqueueing threads and the workers: no notify_one
\* is lost between a push and a worker's going to wait. Stated as: as long as
\* the pool is not being destroyed, again and again every task enqueued so
\* far has completed.
C21_EnqueuedRuns == []<>(dtor # Alive \/ AllRan)

\* every task was enqueued and has run, and the workers all block in
\* cv.wait again, the pool still alive
C21_Witness ==
    /\ dtor = Alive
    /\ enq = MaxTasks
    /\ AllRan
    /\ waiters = Workers

\* C22: no worker starts a task once the stop flag is set: a task that is
\* still in the queue when ~thread_pool has executed stop = true is never
\* taken from it.
C22_NoStartAfterStop ==
    [][\A w \in Workers :
          (workers[w].state = "check" /\ workers'[w].state = "run") => ~stop]_vars

\* every worker thread has left its loop
AllExited == \A w \in Workers : workers[w].state = "exited"

\* C23: once ~thread_pool has set the stop flag, every worker eventually
\* exits and the destruction of the pool, which joins the workers, completes.
C23_TeardownTerminates == stop ~> (AllExited /\ dtor.at = "done")

(* ---- once ------------------------------------------------------------------ *)
\* the step is a publish: the call recorded is a publish and the step is not
\* a stuttering one
PublishStep == ret'.op = "publish" /\ (ret' # ret \/ subs' # subs)

\* the ids of the once wrappers that have been invoked
FiredIds == {f.id : f \in fired}

\* the subscribers that stand before subscriber id in a bucket
Before(vec, id) == {vec[j].id : j \in 1..(find_if(vec, id) - 1)}

Destroys(h) == owned[h].state \in {"armed", "disarmed"} /\ owned'[h].state = "destroyed"

\* the step is a call of unsubscribe() on an owned_id that is not armed
IdleUnsubscribe == ret'.op = "owned_unsubscribe" /\ ret'.id = NoId /\ ret' # ret

\* C26: over every sequence of unsubscribe(), release(), moves and
\* destructions, the owned_id objects that hold a subscription fire at
\* most one unsubscribe for it; unsubscribe() on an object that is not
\* armed (a second unsubscribe(), or one after release or on a moved-from
\* object) changes nothing and reports no error; and the destruction of an
\* object that is not armed fires nothing.
C26_AtMostOneUnsubscribe ==
    /\ [](\A id \in Ids : fires[id] <= 1)
    /\ [][IdleUnsubscribe =>
             subs' = subs /\ fires' = fires /\ owned' = owned /\ ret'.status = OK]_vars
    /\ [][\A h \in Handles :
             (Destroys(h) /\ ~valid(owned[h])) => subs' = subs /\ fires' = fires]_vars

\* C26 witness: an owned_id whose unsubscribe() fired was destroyed after a
\* further unsubscribe() that did nothing; one unsubscribe was fired for its
\* id.
C26_Witness ==
    /\ ret.op = "owned_unsubscribe"
    /\ ret.id = NoId
    /\ \E h \in Handles :
          /\ owned[h].state = "destroyed"
          /\ owned[h].explicit
          /\ fires[owned[h].id] = 1

\* C27: the destruction of an owned_id that is still armed fires exactly one
\* unsubscribe<EventT>(b, id), the only one ever fired for that id, after
\* which the id is in no bucket; and no publish invokes a subscriber whose
\* owned_id has fired.
C27_DestroyUnsubscribes ==
    /\ [][\A h \in Handles :
             (Destroys(h) /\ valid(owned[h])) =>
                LET o == owned[h]
                IN  /\ fires[o.id] = 0
                    /\ fires'[o.id] = 1
                    /\ subs' = unsubscribe_subs(subs, o.type, o.id, gc_enabled)
                    /\ o.id \notin UNION {IdsOf(subs'[t]) : t \in DOMAIN subs'}]_vars
    /\ [][PublishStep => \A id \in IdsOf(ret'.invoked) : fires[id] = 0]_vars

\* C27 witness: an owned_id was destroyed while armed (no unsubscribe() was
\* called on it and no other object held its id), and a publish of its type
\* made afterwards did not invoke its subscriber.
C27_Witness ==
    \E h \in Handles :
       /\ owned[h].state = "destroyed"
       /\ ~owned[h].explicit
       /\ \A g \in Handles \ {h} : owned[g].id # owned[h].id
       /\ fires[owned[h].id] = 1
       /\ ret.op = "publish"
       /\ ret.type = owned[h].type
       /\ owned[h].id \notin IdsOf(ret.invoked)

\* the ids that were handed back by release(): wrapped by owned_id objects
\* none of which is armed any more, and never unsubscribed by one
Released == {id \in Ids : /\ fires[id] = 0
                          /\ \E h \in Handles : owned[h].id = id
                          /\ \A h \in Handles : owned[h].id = id => ~valid(owned[h])}

\* C28: release() on an armed owned_id returns the id it wraps, leaves the
\* object not valid, and changes neither the registry nor the count of
\* unsubscribes fired; destroying an object that is not armed leaves the
\* registry as it is; a released subscriber that is still registered is
\* invoked by a publish of its type that is not stopped before it; and
\* unsubscribe<EventT>(b, id) with the released id of a registered
\* subscriber removes it and returns OK.
C28_ReleaseDisarms ==
    /\ [][\A h \in Handles :
             (ret'.op = "release" /\ ret' # ret /\ valid(owned[h]) /\ ~valid(owned'[h])) =>
                /\ ret'.id = owned[h].id
                /\ subs' = subs
                /\ fires' = fires
                /\ owned'[h].state = "disarmed"]_vars
    /\ [][\A h \in Handles : (Destroys(h) /\ owned[h].state = "disarmed") => subs' = subs]_vars
    /\ [][PublishStep =>
             \A id \in Released \cap IdsOf(bucket_ref(subs, ret'.type)) :
                \/ id \in IdsOf(ret'.invoked)
                \/ ~ret'.invoked[Len(ret'.invoked)].result]_vars
    /\ [][(ret'.op = "unsubscribe" /\ ret' # ret /\ ret'.id \in Released
              /\ ret'.id \in IdsOf(bucket_ref(subs, ret'.type))) =>
             /\ ret'.status = OK
             /\ ret'.id \notin UNION {IdsOf(subs'[t]) : t \in DOMAIN subs'}]_vars

\* C28 witness: an owned_id was released and destroyed, its subscriber
\* stayed registered, and the id release returned has just been unsubscribed
\* with status OK.
C28_Witness ==
    /\ ret.op = "unsubscribe"
    /\ ret.status = OK
    /\ ret.id \in Released
    /\ \E h \in Handles : owned[h].state = "destroyed" /\ owned[h].id = ret.id

(* ---- subscribe_multi ----------------------------------------------------------- *)
\* the type of the bucket that holds subscriber id, NoType when none does
TypeOf(s, id) ==
    IF \E t \in DOMAIN s : id \in IdsOf(s[t])
    THEN CHOOSE t \in DOMAIN s : id \in IdsOf(s[t])
    ELSE NoType

\* C29: subscribe_multi over k distinct types makes k subscribe calls, one
\* per type in the listed order: each registers one new subscriber, with a
\* fresh id and the given priority, in the bucket of its type and in no
\* other bucket; the call returns the k ids, all distinct, the i-th being
\* the id registered for the i-th type (every returned id that is still
\* registered is in the bucket of its type). Unsubscribing one of the ids
\* from its type removes that subscriber only: the buckets of the other
\* types hold what they held.
C29_SubscribeMulti ==
    /\ [][(pc.op = "subscribe_multi" /\ pc'.op = "subscribe_multi" /\ pc'.done # pc.done) =>
             LET t  == pc.events[Len(pc.done) + 1]
                 id == pc'.done[Len(pc'.done)]
             IN  /\ Len(pc'.done) = Len(pc.done) + 1
                 /\ id \notin Range(issued)
                 /\ IdsOf(bucket_ref(subs', t)) = IdsOf(bucket_ref(subs, t)) \cup {id}
                 /\ PriorityIn(bucket_ref(subs', t), id) = pc.priority
                 /\ \A u \in Types \ {t} : bucket_ref(subs', u) = bucket_ref(subs, u)]_vars
    /\ [][(pc.op = "subscribe_multi" /\ pc'.op = "ready") =>
             /\ ret'.op = "subscribe_multi"
             /\ Len(ret'.ids) = Len(pc.events)
             /\ ret'.types = pc.events
             /\ \A i, j \in 1..Len(ret'.ids) : i # j => ret'.ids[i] # ret'.ids[j]
             /\ \A i \in 1..Len(ret'.ids) :
                   TypeOf(subs', ret'.ids[i]) \in {NoType, ret'.types[i]}]_vars
    /\ [][(ret'.op = "unsubscribe" /\ ret' # ret) =>
             /\ \A u \in Types \ {ret'.type} : bucket_ref(subs', u) = bucket_ref(subs, u)
             /\ IdsOf(bucket_ref(subs', ret'.type))
                   = IdsOf(bucket_ref(subs, ret'.type)) \ {ret'.id}]_vars

\* C29 witness: a subscribe_multi over MaxTypes types has returned; the id it
\* registered for its first type was unsubscribed in the meantime, and the
\* subscribers it registered for the other types are in their buckets.
C29_Witness ==
    /\ ret.op = "subscribe_multi"
    /\ Len(ret.ids) = MaxTypes
    /\ ret.ids[1] \notin RegisteredIds
    /\ \A i \in 2..MaxTypes : ret.ids[i] \in IdsOf(bucket_ref(subs, ret.types[i]))

(* ---- subscribe: effect and frame ------------------------------------------------ *)
\* C30: subscribe succeeds in every registry state: the call returns OK and
\* the id it allocated; the bucket of its type exists afterwards (created
\* when it was absent) and holds what it held plus exactly one new
\* subscriber, with the returned id and the given priority; a publish of that
\* type made next returns OK whatever the callbacks return; and every other
\* type has a bucket exactly if it had one, with the same subscribers in the
\* same order.
C30_SubscribeFrame ==
    [][(pc.op = "subscribe" /\ pc'.op = "ready") =>
          LET t   == pc.type
              old == bucket_ref(subs, t)
              new == bucket_ref(subs', t)
          IN  /\ ret' = [op |-> "subscribe", type |-> t, id |-> pc.id,
                         status |-> OK, invoked |-> <<>>]
              /\ t \in DOMAIN subs'
              /\ pc.id \notin IdsOf(old)
              /\ Len(new) = Len(old) + 1
              /\ Range(new) = Range(old) \cup {subscriber(pc.id, pc.priority)}
              /\ \A rets \in [IdsOf(new) -> BOOLEAN] :
                    publish_result(subs', t, rets).status = OK
              /\ \A u \in Types \ {t} :
                    /\ u \in DOMAIN subs' <=> u \in DOMAIN subs
                    /\ bucket_ref(subs', u) = bucket_ref(subs, u)]_vars

\* C30 witness: a subscribe has just created the bucket of its type, which
\* holds the new subscriber alone, while the bucket of another type holds two
\* subscribers.
C30_Witness ==
    /\ ret.op = "subscribe"
    /\ pc = Ready
    /\ IdsOf(bucket_ref(subs, ret.type)) = {ret.id}
    /\ \E u \in DOMAIN subs : u # ret.type /\ Len(subs[u]) = 2
(* ---- empty buckets in the build without GC ---------------------------------------- *)
\* the step is a call of publish_async
PublishAsyncStep == calls' # calls /\ ret'.op = "publish_async"

\* type t is registered with a bucket that holds no subscriber
EmptyBucket(s, t) == t \in DOMAIN s /\ s[t] = <<>>

\* C31: with GC disabled, an unsubscribe(type, id) or unsubscribe(id) that
\* removes the last subscriber of a type leaves the type registered with an
\* empty bucket; a publish or publish_async of a type whose bucket is empty
\* returns NO_SUBSCRIBERS_FOR_EVENT_TYPE and invokes nothing (enqueues
\* nothing), and unsubscribe_event of it returns OK.
C31_EmptyBucketKept ==
    [][~gc_enabled =>
         /\ (ret'.op \in {"unsubscribe", "unsubscribe_any"} /\ ret'.status = OK)
               => \A t \in DOMAIN subs :
                     IdsOf(subs[t]) = {ret'.id} => EmptyBucket(subs', t)
         /\ (PublishStep /\ EmptyBucket(subs, ret'.type))
               => /\ ret'.status = NO_SUBSCRIBERS_FOR_EVENT_TYPE
                  /\ ret'.invoked = <<>>
         /\ (PublishAsyncStep /\ EmptyBucket(subs, ret'.type))
               => /\ ret'.status = NO_SUBSCRIBERS_FOR_EVENT_TYPE
                  /\ tasks' = tasks
                  /\ outcome' = outcome
         /\ (ret'.op = "unsubscribe_event" /\ EmptyBucket(subs, ret'.type))
               => ret'.status = OK]_vars

\* C31 witness: in the build without GC a publish_async found the bucket
\* that an unsubscribe had emptied, still registered, and returned
\* NO_SUBSCRIBERS_FOR_EVENT_TYPE.
C31_Witness ==
    /\ ~gc_enabled
    /\ ret.op = "publish_async"
    /\ ret.status = NO_SUBSCRIBERS_FOR_EVENT_TYPE
    /\ EmptyBucket(subs, ret.type)
    /\ id_counter > 0
(* ---- the references held by publish_async tasks ------------------------------------ *)
\* worker w leaves the point where it is about to run the publish_async
\* lambda it took
AsyncRuns(w) ==
    /\ workers[w].state = "taken"
    /\ workers[w].task.kind = "async"
    /\ workers'[w].state # "taken"

\* C35 (as claimed): the lambda a worker runs for a publish_async call
\* invokes the subscriber it was created for, and only while that subscriber
\* is still registered under the type; otherwise it invokes nothing. It never
\* invokes another subscriber and never a removed one.
C35_TaskInvokesItsSubscriber ==
    [][\A w \in Workers :
          (AsyncRuns(w) /\ workers'[w].state = "invoking") =>
             /\ workers'[w].inv = workers[w].task.id
             /\ workers[w].task.id \in IdsOf(bucket_ref(subs, workers[w].task.type))]_vars
(* ---- publish_threaded: the lookup is deferred ---------------------------------------- *)
\* worker w is inside the dispatch loop of the publish its publish_threaded
\* task called
Dispatching(w) == workers[w].state = "invoking" /\ workers[w].task.kind = "threaded"

\* worker w leaves the point where it is about to run the publish_threaded
\* lambda it took
ThreadedRuns(w) ==
    /\ workers[w].state = "taken"
    /\ workers[w].task.kind = "threaded"
    /\ workers'[w].state # "taken"

\* C36: publish_threaded looks nothing up: it returns OK and enqueues its
\* one task whether or not the type is registered, and leaves the registry
\* alone. The deferred publish dispatches over the bucket the registry holds
\* when the worker runs the task: with no bucket it invokes nothing and its
\* status is dropped; otherwise it starts with the first subscriber of that
\* bucket, the registry stays as it is while the dispatch lasts, and at any
\* moment of the dispatch the subscribers invoked are exactly the first ones
\* of that bucket. So a subscriber added between the call and the run is
\* invoked in its place and one removed in between is not invoked.
C36_DeferredLookup ==
    /\ [][(ret'.op = "publish_threaded" /\ calls' # calls) =>
             /\ ret'.status = OK
             /\ calls'[Len(calls')].status = OK
             /\ Len(tasks') = Len(tasks) + 1
             /\ subs' = subs
             /\ outcome' = outcome]_vars
    /\ [][\A w \in Workers : ThreadedRuns(w) =>
             LET vec == bucket_ref(subs, workers[w].task.type)
             IN  IF vec = <<>>
                 THEN workers'[w] = Waiting /\ outcome' = outcome /\ ret' = ret
                 ELSE /\ Dispatching(w)'
                      /\ workers'[w].pos = 1]_vars
    /\ [][(\E w \in Workers : Dispatching(w)) => subs' = subs]_vars
    /\ [](\A w \in Workers : Dispatching(w) =>
             LET vec == bucket_ref(subs, workers[w].task.type)
                 c   == workers[w].task.call
                 pos == workers[w].pos
             IN  /\ mu = Tid(w)
                 /\ pos \in 1..Len(vec)
                 /\ \A i \in 1..(pos - 1) : outcome[c][vec[i].id] = ReturnedTrue
                 /\ outcome[c][vec[pos].id] = Invoking
                 /\ \A id \in Ids \ {vec[i].id : i \in 1..pos} :
                       outcome[c][id] = NotInvoked)

\* C36 witness: the deferred publish is invoking a subscriber that was
\* subscribed after publish_threaded had returned, while a subscriber that
\* was registered at the time of the call and removed since has not been
\* invoked.
C36_Witness ==
    \E w \in Workers :
       /\ Dispatching(w)
       /\ ret.op = "subscribe"
       /\ subs[workers[w].task.type][workers[w].pos].id = ret.id
       /\ 0 \notin RegisteredIds
       /\ outcome[workers[w].task.call][0] = NotInvoked
(* ---- the statuses of the pool's publish functions ------------------------------------- *)
\* the step is a publish_async call, made directly or by publish_async_multi
AsyncCallStep == calls' # calls /\ calls'[Len(calls')].kind = "async"

\* the step is the return of publish_threaded_multi or publish_async_multi
PoolMultiReturns == pc.op \in {"threaded", "async"} /\ pc' = Ready

\* C39: publish_async returns EVENT_TYPE_NOT_REGISTERED for a type that has
\* no bucket and NO_SUBSCRIBERS_FOR_EVENT_TYPE for a type whose bucket is
\* empty, and enqueues nothing in both cases; otherwise it returns OK and
\* enqueues a task for every subscriber. publish_async_multi and
\* publish_threaded_multi return OK whatever their single dispatches
\* returned.
C39_PoolStatuses ==
    /\ [][AsyncCallStep =>
             LET t      == calls'[Len(calls')].type
                 status == calls'[Len(calls')].status
             IN  /\ ret'.op = "publish_async" /\ ret'.type = t /\ ret'.status = status
                 /\ t \notin DOMAIN subs =>
                       status = EVENT_TYPE_NOT_REGISTERED /\ tasks' = tasks
                 /\ (t \in DOMAIN subs /\ subs[t] = <<>>) =>
                       status = NO_SUBSCRIBERS_FOR_EVENT_TYPE /\ tasks' = tasks
                 /\ (t \in DOMAIN subs /\ subs[t] # <<>>) =>
                       status = OK /\ Len(tasks') = Len(tasks) + Len(subs[t])]_vars
    /\ [][PoolMultiReturns =>
             /\ ret'.op \in {"publish_threaded_multi", "publish_async_multi"}
             /\ ret'.status = OK]_vars

\* C39 witness: publish_async_multi has returned OK although the
\* publish_async of one of its events found an empty bucket.
C39_Witness ==
    /\ ret.op = "publish_async_multi"
    /\ ret.status = OK
    /\ \E i \in 1..Len(ret.invoked) : ret.invoked[i] = NO_SUBSCRIBERS_FOR_EVENT_TYPE
(* ---- failing calls ------------------------------------------------------------------- *)
\* the step is the return of an unsubscribe, unsubscribe_event, publish or
\* publish_async call with a status other than OK
FailingReturn ==
    /\ ret' # ret \/ calls' # calls
    /\ ret'.op \in {"unsubscribe", "unsubscribe_any", "unsubscribe_event",
                    "publish", "publish_async"}
    /\ ret'.status \in {EVENT_TYPE_NOT_REGISTERED, NO_SUBSCRIBERS_FOR_EVENT_TYPE,
                        NO_SUBSCRIBER_WITH_ID}

\* C33: a call that returns a status other than OK leaves the bus as it
\* was: the registry keeps every bucket and every subscriber in its place,
\* no subscriber is invoked, no task is enqueued, and the id counter keeps
\* its value.
C33_FailureChangesNothing ==
    [][FailingReturn =>
          /\ subs' = subs
          /\ id_counter' = id_counter
          /\ issued' = issued
          /\ ret'.invoked = <<>>
          /\ tasks' = tasks
          /\ enq' = enq
          /\ outcome' = outcome]_vars

\* C33 witness: an unsubscribe(type, id) of an id that is not in the type's
\* bucket has failed while the bucket holds another subscriber.
C33_Witness ==
    /\ ret.op = "unsubscribe"
    /\ ret.status # OK
    /\ ret.type \in DOMAIN subs
    /\ subs[ret.type] # <<>>
    /\ ret.id \notin IdsOf(subs[ret.type])
(* ---- the bus lock and the pool's queue lock ------------------------------------------ *)
\* the followed thread is inside publish_threaded or publish_async
InPoolCall == pc.op \in {"publish_threaded", "publish_async"}

\* C32: a thread inside publish_threaded or publish_async never waits for
\* the bus lock: while no thread holds the pool's queue lock it always has
\* a step to take, whoever holds the bus lock.
C32_PoolCallNeverWaitsForBusLock ==
    (InPoolCall /\ queue_mu = Free) => ENABLED client_step

\* the threads that are inside the dispatch loop of publish: workers running
\* a publish_threaded task, and the other client thread
InDispatch ==
    {Tid(w) : w \in {v \in Workers : Dispatching(v)}}
        \cup (IF mu = Other THEN {Other} ELSE {})

\* worker w is executing the callback of a subscriber
InCallback(w) == workers[w].state = "invoking"

AtEnqueue == pc.op = "publish_async" /\ pc.at = "enqueue"

C34_BucketStableDuringDispatch ==
    [][(pc.op = "publish" /\ pc.at = "dispatch") =>
          /\ pc.type \in DOMAIN subs'
          /\ subs'[pc.type] = subs[pc.type]]_vars
====
